---------------------------- MODULE Spec2Model ----------------------------
(***************************************************************************)
(* State-machine model of the small-path renderer of skia                  *)
(* (src/gpu/ops/GrSmallPathRenderer.cpp): the shape cache and its liveness *)
(* list, the eviction callback, the op that batches draw requests, and the *)
(* op's onPrepareDraws loop with its flush-and-retry protocol.             *)
(*                                                                         *)
(* Scalars are exact rationals <<n, d>> (d > 0, lowest terms).             *)
(***************************************************************************)
EXTENDS Integers, Sequences, FiniteSets, TLC

(***************************************************************************)
(* Bounds of the model.                                                    *)
(***************************************************************************)
\* Draw requests accepted over the renderer's lifetime.
MaxRequests == 3
\* The resolution selection is tried with maximum scale factors 1/2, 1, 3/2, ...
\* up to MaxScaleHalves / 2 and largest shape dimensions 1/2, 1, ... up to
\* MaxDimHalves / 2.
MaxScaleHalves == 16
MaxDimHalves == 24
\* Plots (regions) of the atlas.
NumPlots == 2
\* gpuMemorySize() of the shared quad index buffer, in bytes.
IndexBufferBytes == 24

(***************************************************************************)
(* Program constants.                                                      *)
(***************************************************************************)
kIdealMinMIP == 12
kMaxMIP == 162
kMaxDim == 73
kAntiAliasPad == 1
SK_DistanceFieldPad == 4
kVerticesPerQuad == 4
kIndicesPerQuad == 6
SizeofUint16 == 2
PLOT_WIDTH == 512
PLOT_HEIGHT == 256

(***************************************************************************)
(* SkScalar as an exact rational.                                          *)
(***************************************************************************)
RECURSIVE Gcd(_, _)
Gcd(a, b) == IF b = 0 THEN a ELSE Gcd(b, a % b)

Abs(x) == IF x < 0 THEN -x ELSE x

Rat(n, d) ==
    LET g == Gcd(Abs(n), Abs(d))
        s == IF d < 0 THEN -1 ELSE 1
    IN  <<(s * n) \div g, (s * d) \div g>>

I2R(i) == <<i, 1>>
RAdd(x, y) == Rat(x[1] * y[2] + y[1] * x[2], x[2] * y[2])
RSub(x, y) == Rat(x[1] * y[2] - y[1] * x[2], x[2] * y[2])
RMul(x, y) == Rat(x[1] * y[1], x[2] * y[2])
RDiv(x, y) == Rat(x[1] * y[2], x[2] * y[1])
RLt(x, y) == x[1] * y[2] < y[1] * x[2]
RLe(x, y) == x[1] * y[2] <= y[1] * x[2]
RMax(x, y) == IF RLt(x, y) THEN y ELSE x
RMin(x, y) == IF RLt(y, x) THEN y ELSE x
RAbs(x) == <<Abs(x[1]), x[2]>>
\* SkScalarFloorToScalar / SkScalarFloorToInt (TLA+'s \div rounds down).
SkScalarFloorToInt(x) == x[1] \div x[2]
\* SkScalarCeilToInt
SkScalarCeilToInt(x) == -((-x[1]) \div x[2])
\* SkScalarFraction(x) = x - SkScalarTruncToScalar(x)
SkScalarTruncToInt(x) == IF x[1] < 0 THEN SkScalarCeilToInt(x) ELSE SkScalarFloorToInt(x)
SkScalarFraction(x) == RSub(x, I2R(SkScalarTruncToInt(x)))

(***************************************************************************)
(* Rectangles and matrices.                                                *)
(***************************************************************************)
MakeRect(l, t, r, b) == [fLeft |-> l, fTop |-> t, fRight |-> r, fBottom |-> b]
RectWidth(rc) == RSub(rc.fRight, rc.fLeft)
RectHeight(rc) == RSub(rc.fBottom, rc.fTop)
IRectWidth(rc) == rc.fRight - rc.fLeft
IRectHeight(rc) == rc.fBottom - rc.fTop
\* SkRect::isEmpty(): !(fLeft < fRight && fTop < fBottom)
RectIsEmpty(rc) == ~(RLt(rc.fLeft, rc.fRight) /\ RLt(rc.fTop, rc.fBottom))
\* SkRect::roundOut
RoundOut(rc) ==
    MakeRect(SkScalarFloorToInt(rc.fLeft), SkScalarFloorToInt(rc.fTop),
             SkScalarCeilToInt(rc.fRight), SkScalarCeilToInt(rc.fBottom))
RectOffset(rc, dx, dy) ==
    MakeRect(RAdd(rc.fLeft, dx), RAdd(rc.fTop, dy),
             RAdd(rc.fRight, dx), RAdd(rc.fBottom, dy))
RectJoin(a, b) ==
    MakeRect(RMin(a.fLeft, b.fLeft), RMin(a.fTop, b.fTop),
             RMax(a.fRight, b.fRight), RMax(a.fBottom, b.fBottom))

\* A scale-translate view matrix (no skew, no perspective).
MakeMatrix(sx, sy, tx, ty) ==
    [fScaleX |-> sx, fScaleY |-> sy, fTransX |-> tx, fTransY |-> ty]
\* SkMatrix::mapRect for a scale-translate matrix (result is sorted).
MapRect(m, rc) ==
    LET x0 == RAdd(RMul(rc.fLeft, m.fScaleX), m.fTransX)
        x1 == RAdd(RMul(rc.fRight, m.fScaleX), m.fTransX)
        y0 == RAdd(RMul(rc.fTop, m.fScaleY), m.fTransY)
        y1 == RAdd(RMul(rc.fBottom, m.fScaleY), m.fTransY)
    IN  MakeRect(RMin(x0, x1), RMin(y0, y1), RMax(x0, x1), RMax(y0, y1))
\* SkMatrix::getMaxScale for a scale-translate matrix.
GetMaxScale(m) == RMax(RAbs(m.fScaleX), RAbs(m.fScaleY))
GetMinScale(m) == RMin(RAbs(m.fScaleX), RAbs(m.fScaleY))
\* SkMatrix::cheapEqualTo: bitwise equality of the coefficients.
CheapEqualTo(a, b) == a = b
\* SkMatrix::invert succeeds iff the determinant is not zero.
Invertible(m) == m.fScaleX[1] # 0 /\ m.fScaleY[1] # 0


(***************************************************************************)
(* Inputs: shapes, view matrices, colors, paints.                          *)
(***************************************************************************)
ShapeIds == {"A", "B"}
\* GrShape::bounds() of each shape.
ShapeBounds(s) ==
    IF s = "A" THEN MakeRect(I2R(0), I2R(0), I2R(50), I2R(40))
    ELSE IF s = "B" THEN MakeRect(I2R(1), I2R(2), I2R(61), I2R(32))
    ELSE MakeRect(I2R(0), I2R(0), I2R(20), I2R(10))
Colors == {"red", "blue"}
\* A paint decides the helper's pipeline state and whether local coords are used.
Paints == {"plain", "shader"}
UsesLocalCoords(helper) == helper = "shader"
\* GrSimpleMeshDrawOpHelperWithStencil::isCompatible
IsCompatible(h1, h2) == h1 = h2
\* Scale 1 keeps both shapes below kMaxMIP (bitmap mode); scale 4 puts them
\* above it (distance-field mode).  The translation is 2.5 in x.
M1 == MakeMatrix(I2R(1), I2R(1), Rat(5, 2), I2R(0))
M4 == MakeMatrix(I2R(4), I2R(4), Rat(5, 2), I2R(0))
\* The same two with other translations: 3.5 and 0.5 in x.
M1b == MakeMatrix(I2R(1), I2R(1), Rat(7, 2), I2R(0))
M4h == MakeMatrix(I2R(4), I2R(4), Rat(1, 2), I2R(0))
\* Null pointers and values not set.
Null == 0
NoAtlas == [callbacks |-> 0]
NoOp == [fShapes |-> <<>>]
NoKey == [mode |-> "none"]
NoID == [plot |-> 0]
NoRect == [unset |-> TRUE]
NoQuad == [req |-> 0]
NoMip == [phase |-> "none"]
NoGate == [phase |-> "none"]
NoGamma == [phase |-> "none"]

(***************************************************************************)
(* SmallPathOp: constructor and combine.                                   *)
(***************************************************************************)
\* GrOp::setTransformedBounds followed by the mode decision.
UsesDistanceField(shape, viewMatrix) ==
    LET b == MapRect(viewMatrix, ShapeBounds(shape))
    IN  RLt(I2R(kMaxMIP), RectWidth(b)) \/ RLt(I2R(kMaxMIP), RectHeight(b))

\* SmallPathOp::SmallPathOp.  req is the number of the draw request, kept
\* with the entry to tell the instances of a batch apart; paint is the paint
\* the request came with, kept with the entry for the record.
\* The op with the translation rounded to the nearest integer instead of
\* floored.
SmallPathOpRounded(req, color, shape, viewMatrix, helper) ==
    LET df == UsesDistanceField(shape, viewMatrix)
        translateX == viewMatrix.fTransX
        translateY == viewMatrix.fTransY
        translate == IF df THEN <<I2R(0), I2R(0)>>
                     ELSE <<I2R(SkScalarFloorToInt(RAdd(translateX, Rat(1, 2)))),
                            I2R(SkScalarFloorToInt(RAdd(translateY, Rat(1, 2))))>>
        vm == IF df THEN viewMatrix
              ELSE [viewMatrix EXCEPT !.fTransX = RSub(translateX, translate[1]),
                                      !.fTransY = RSub(translateY, translate[2])]
    IN  [fUsesDistanceField |-> df,
         fViewMatrix |-> vm,
         fShapes |-> << [fColor |-> color, fShape |-> shape,
                         fTranslate |-> translate, req |-> req, paint |-> helper] >>,
         fHelper |-> helper,
         fBounds |-> MapRect(viewMatrix, ShapeBounds(shape))]
SmallPathOp(req, color, shape, viewMatrix, helper) ==
    LET df == UsesDistanceField(shape, viewMatrix)
        translateX == viewMatrix.fTransX
        translateY == viewMatrix.fTransY
        translate == IF df THEN <<I2R(0), I2R(0)>>
                     ELSE <<I2R(SkScalarFloorToInt(translateX)),
                            I2R(SkScalarFloorToInt(translateY))>>
        vm == IF df THEN viewMatrix
              ELSE [viewMatrix EXCEPT !.fTransX = RSub(translateX, translate[1]),
                                      !.fTransY = RSub(translateY, translate[2])]
    IN  [fUsesDistanceField |-> df,
         fViewMatrix |-> vm,
         fShapes |-> << [fColor |-> color, fShape |-> shape,
                         fTranslate |-> translate, req |-> req, paint |-> helper] >>,
         fHelper |-> helper,
         fBounds |-> MapRect(viewMatrix, ShapeBounds(shape))]

\* SkPoint::equalsWithinTolerance (nearly-zero tolerance 1/4096).
EqualsWithinTolerance(p, q) ==
    /\ RLe(RAbs(RSub(p[1], q[1])), Rat(1, 4096))
    /\ RLe(RAbs(RSub(p[2], q[2])), Rat(1, 4096))

\* SmallPathOp::onCombineIfPossible: whether this absorbs that.
CanCombineAnyMode(this, that) ==
    /\ IsCompatible(this.fHelper, that.fHelper)
    /\ CheapEqualTo(this.fViewMatrix, that.fViewMatrix)
    /\ ~(/\ ~this.fUsesDistanceField
         /\ UsesLocalCoords(this.fHelper)
         /\ ~EqualsWithinTolerance(this.fShapes[1].fTranslate,
                                   that.fShapes[1].fTranslate))
CanCombineFieldAnyMatrix(this, that) ==
    /\ IsCompatible(this.fHelper, that.fHelper)
    /\ this.fUsesDistanceField = that.fUsesDistanceField
    /\ this.fUsesDistanceField \/ CheapEqualTo(this.fViewMatrix, that.fViewMatrix)
    /\ ~(/\ ~this.fUsesDistanceField
         /\ UsesLocalCoords(this.fHelper)
         /\ ~EqualsWithinTolerance(this.fShapes[1].fTranslate,
                                   that.fShapes[1].fTranslate))
CanCombine(this, that) ==
    /\ IsCompatible(this.fHelper, that.fHelper)
    /\ this.fUsesDistanceField = that.fUsesDistanceField
    /\ CheapEqualTo(this.fViewMatrix, that.fViewMatrix)
    /\ ~(/\ ~this.fUsesDistanceField
         /\ UsesLocalCoords(this.fHelper)
         /\ ~EqualsWithinTolerance(this.fShapes[1].fTranslate,
                                   that.fShapes[1].fTranslate))

\* The op this becomes when the combine succeeds.
CombinedKeepsBounds(this, that) ==
    [this EXCEPT !.fShapes = this.fShapes \o that.fShapes]
CombinedInFront(this, that) ==
    [this EXCEPT !.fShapes = that.fShapes \o this.fShapes,
                 !.fBounds = RectJoin(this.fBounds, that.fBounds)]
Combined(this, that) ==
    [this EXCEPT !.fShapes = this.fShapes \o that.fShapes,
                 !.fBounds = RectJoin(this.fBounds, that.fBounds)]

(***************************************************************************)
(* Resolution selection of the distance-field mode (onPrepareDraws).       *)
(***************************************************************************)
RECURSIVE Pow2(_)
Pow2(k) == IF k = 0 THEN 1 ELSE 2 * Pow2(k - 1)
\* ceil(log2(x)) for a rational x >= 1: the least k with x <= 2^k.
RECURSIVE CeilLog2From(_, _)
CeilLog2From(x, k) == IF RLe(x, I2R(Pow2(k))) THEN k ELSE CeilLog2From(x, k + 1)
CeilLog2(x) == CeilLog2From(x, 0)
\* floor(log2(x)) for a rational x >= 1: the greatest k with 2^k <= x.
RECURSIVE FloorLog2From(_, _)
FloorLog2From(x, k) ==
    IF RLt(x, I2R(Pow2(k + 1))) THEN k ELSE FloorLog2From(x, k + 1)
FloorLog2(x) == FloorLog2From(x, 0)

\* mipScale with the logarithm above 1 rounded down instead of up.
MipScaleRoundedDown(maxScale) ==
    IF RLe(maxScale, Rat(1, 2))
    THEN Rat(1, Pow2(FloorLog2(RDiv(I2R(1), maxScale))))
    ELSE IF RLt(I2R(1), maxScale)
         THEN I2R(Pow2(FloorLog2(maxScale)))
         ELSE I2R(1)
MipScale(maxScale) ==
    IF RLe(maxScale, Rat(1, 2))
    THEN Rat(1, Pow2(FloorLog2(RDiv(I2R(1), maxScale))))
    ELSE IF RLt(I2R(1), maxScale)
         THEN I2R(Pow2(CeilLog2(maxScale)))
         ELSE I2R(1)

\* do { newMipSize *= 2; } while (newMipSize < kIdealMinMIP);
RECURSIVE DoubleUp(_)
DoubleUp(n) ==
    LET n2 == RMul(n, I2R(2))
    IN  IF RLt(n2, I2R(kIdealMinMIP)) THEN DoubleUp(n2) ELSE n2
\* while (newMipSize > 4 * mipSize) { newMipSize *= 0.25f; }
RECURSIVE QuarterDown(_, _)
QuarterDown(n, mipSize) ==
    IF RLt(RMul(I2R(4), mipSize), n)
    THEN QuarterDown(RMul(n, Rat(1, 4)), mipSize)
    ELSE n

\* The mipSize after the adjustment; mipSize0 > 0.
AdjustMipSizeNoQuarter(mipSize0) ==
    IF RLt(mipSize0, I2R(kIdealMinMIP)) THEN DoubleUp(mipSize0) ELSE mipSize0
AdjustMipSize(mipSize0) ==
    IF RLt(mipSize0, I2R(kIdealMinMIP))
    THEN QuarterDown(DoubleUp(mipSize0), mipSize0)
    ELSE mipSize0

MaxDimOf(shape) ==
    RMax(RectWidth(ShapeBounds(shape)), RectHeight(ShapeBounds(shape)))

\* mipSize = mipScale*SkScalarAbs(maxDim), before the adjustment.
MipSize(maxScale, maxDim) == RMul(MipScale(maxScale), RAbs(maxDim))
\* desiredDimension = SkTMin(mipSize, kMaxMIP)
DesiredDimensionUncapped(maxScale, maxDim) == AdjustMipSize(MipSize(maxScale, maxDim))
DesiredDimensionOf(maxScale, maxDim) ==
    RMin(AdjustMipSize(MipSize(maxScale, maxDim)), I2R(kMaxMIP))

DesiredDimension(shape, viewMatrix) ==
    DesiredDimensionOf(RAbs(GetMaxScale(viewMatrix)), MaxDimOf(shape))

(***************************************************************************)
(* ShapeData keys and records.                                             *)
(***************************************************************************)
\* ShapeData::Key::set(shape, dimension)
KeyDF(shape, dimension) == [mode |-> "df", shape |-> shape, dim |-> dimension]
\* ShapeData::Key::set(shape, ctm)
KeyBM(shape, ctm) == [mode |-> "bm", shape |-> shape, ctm |-> ctm]

\* The key onPrepareDraws looks up for a shape of an op with this mode and matrix.
LookupKey(df, shape, viewMatrix) ==
    IF df
    THEN KeyDF(shape, SkScalarCeilToInt(DesiredDimension(shape, viewMatrix)))
    ELSE KeyBM(shape, viewMatrix)

\* What addDFPathToAtlas computes before it asks the atlas for room.
DFGeometry(shape, scale) ==
    LET bounds == ShapeBounds(shape)
        scaled == MakeRect(RMul(bounds.fLeft, scale), RMul(bounds.fTop, scale),
                           RMul(bounds.fRight, scale), RMul(bounds.fBottom, scale))
        dx == SkScalarFloorToInt(scaled.fLeft)
        dy == SkScalarFloorToInt(scaled.fTop)
        dev == RoundOut(RectOffset(scaled, I2R(-dx), I2R(-dy)))
        intPad == SkScalarCeilToInt(I2R(kAntiAliasPad))
        width == IRectWidth(dev) + 2 * intPad
        height == IRectHeight(dev) + 2 * intPad
    IN  [devW |-> width, devH |-> height,
         translateX |-> intPad - dx, translateY |-> intPad - dy,
         allocW |-> width + 2 * SK_DistanceFieldPad,
         allocH |-> height + 2 * SK_DistanceFieldPad,
         scale |-> scale, texPad |-> SK_DistanceFieldPad]

\* What addBMPathToAtlas computes before it asks the atlas for room.
BMGeometry(shape, ctm) ==
    LET bounds == ShapeBounds(shape)
        drawMatrix == [ctm EXCEPT !.fTransX = SkScalarFraction(ctm.fTransX),
                                  !.fTransY = SkScalarFraction(ctm.fTransY)]
        shapeDevBounds == MapRect(drawMatrix, bounds)
        dx == SkScalarFloorToInt(shapeDevBounds.fLeft)
        dy == SkScalarFloorToInt(shapeDevBounds.fTop)
        dev == RoundOut(shapeDevBounds)
        intPad == SkScalarCeilToInt(I2R(kAntiAliasPad))
        width == IRectWidth(dev) + 2 * intPad
        height == IRectHeight(dev) + 2 * intPad
    IN  [devW |-> width, devH |-> height,
         translateX |-> intPad - dx, translateY |-> intPad - dy,
         allocW |-> width, allocH |-> height,
         scale |-> I2R(1), texPad |-> 0]

\* The geometry the producer of the op's mode computes for a shape.
ProducerGeometry(df, shape, viewMatrix) ==
    IF df
    THEN DFGeometry(shape, RDiv(DesiredDimension(shape, viewMatrix), MaxDimOf(shape)))
    ELSE BMGeometry(shape, viewMatrix)

\* Key and geometry for one entry of an op.
KeyOf(o, entry) == LookupKey(o.fUsesDistanceField, entry.fShape, o.fViewMatrix)
GeometryOf(o, entry) == ProducerGeometry(o.fUsesDistanceField, entry.fShape, o.fViewMatrix)

\* The record the producers fill in once the atlas gave a region id and a location.
MakeShapeDataNoKey(key, geo, id, loc) ==
    LET moved == RectOffset(MakeRect(I2R(0), I2R(0), I2R(geo.devW), I2R(geo.devH)),
                            I2R(-geo.translateX), I2R(-geo.translateY))
    IN  [state |-> "live",
         fKey |-> NoKey,
         fID |-> id,
         fBounds |-> MakeRect(RDiv(moved.fLeft, geo.scale), RDiv(moved.fTop, geo.scale),
                              RDiv(moved.fRight, geo.scale), RDiv(moved.fBottom, geo.scale)),
         fTextureCoords |-> MakeRect(loc[1] + geo.texPad, loc[2] + geo.texPad,
                                     loc[1] + geo.texPad + geo.devW,
                                     loc[2] + geo.texPad + geo.devH)]
MakeShapeData(key, geo, id, loc) ==
    LET moved == RectOffset(MakeRect(I2R(0), I2R(0), I2R(geo.devW), I2R(geo.devH)),
                            I2R(-geo.translateX), I2R(-geo.translateY))
    IN  [state |-> "live",
         fKey |-> key,
         fID |-> id,
         fBounds |-> MakeRect(RDiv(moved.fLeft, geo.scale), RDiv(moved.fTop, geo.scale),
                              RDiv(moved.fRight, geo.scale), RDiv(moved.fBottom, geo.scale)),
         fTextureCoords |-> MakeRect(loc[1] + geo.texPad, loc[2] + geo.texPad,
                                     loc[1] + geo.texPad + geo.devW,
                                     loc[2] + geo.texPad + geo.devH)]

\* new ShapeData: nothing of it is set yet.
NewShapeData ==
    [state |-> "new", fKey |-> NoKey, fID |-> NoID, fBounds |-> NoRect,
     fTextureCoords |-> NoRect]
\* A deleted ShapeData: its memory is gone.
DeletedShapeData ==
    [state |-> "deleted", fKey |-> NoKey, fID |-> NoID, fBounds |-> NoRect,
     fTextureCoords |-> NoRect]

(***************************************************************************)
(* State.                                                                  *)
(***************************************************************************)
VARIABLES
    fAtlas,        \* NoAtlas, or the atlas: its plots and the registered eviction callbacks
    nextDrawToken, \* the token of the next draw the target will record
    heap,          \* every ShapeData ever allocated, by handle 1..Len(heap)
    fShapeCache,   \* the hash table: the set of handles it holds
    fShapeList,    \* the liveness list: handles from head to tail
    opList,        \* the ops recorded and not yet prepared
    nRequests,     \* draw requests made so far
    pc,            \* idle (recording ops); next (flushing the op list, between two
                   \* ops); inside onPrepareDraws: loop, addToAtlas, retry, done
    op,            \* the op being prepared (NoOp when idle)
    i,             \* loop index of onPrepareDraws
    offset,        \* next vertex to write, relative to the start of the vertex space
    shapeData,     \* the ShapeData pointer of the current iteration
    flushInfo,     \* FlushInfo: fVertexOffset and fInstancesToFlush
    target,        \* the Target: the vertex space handed out and the draws recorded
    trace,         \* what the preparation did so far, in order
    mip,           \* the resolution selection looked at on its own: its inputs
                   \* and, once computed, its results (NoMip in the renderer)
    gate,          \* the request onCanDrawPath is asked about and, once
                   \* computed, its answer (NoGate in the renderer)
    gamma          \* the named gamma and the coefficient struct handed to
                   \* named_to_parametric, and what it and is_valid_transfer_fn
                   \* return (NoGamma in the renderer)

vars == <<fAtlas, nextDrawToken, heap, fShapeCache, fShapeList, opList, nRequests,
          pc, op, i, offset, shapeData, flushInfo, target, trace, mip, gate,
          gamma>>

renderer == <<fAtlas, nextDrawToken, heap, fShapeCache, fShapeList>>
locals == <<op, i, offset, shapeData, flushInfo, target, trace>>
pure == <<mip, gate, gamma>>

Plots == 1 .. NumPlots

(***************************************************************************)
(* The atlas (GrDrawOpAtlas), as far as the renderer consumes it.          *)
(***************************************************************************)
\* GrDrawOpAtlas::Make with one eviction callback registered.
\* An atlas made with the callback registered twice.
MakeAtlasTwice ==
    [callbacks |-> 2,
     plots |-> [p \in Plots |-> [gen |-> 0, used |-> 0, lastUse |-> 0]]]
MakeAtlas ==
    [callbacks |-> 1,
     plots |-> [p \in Plots |-> [gen |-> 0, used |-> 0, lastUse |-> 0]]]

\* GrDrawOpAtlas::hasID
HasID(atlas, id) == atlas.plots[id.plot].gen = id.gen

\* GrDrawOpAtlas::setLastUseToken
SetLastUseToken(atlas, id, token) ==
    [atlas EXCEPT !.plots[id.plot].lastUse = token]

\* The plots that have room for a rectangle.
PlotsWithRoom(atlas, width, height) ==
    {q \in Plots : atlas.plots[q].used + width <= PLOT_WIDTH /\ height <= PLOT_HEIGHT}
\* The plots that hold something and that no draw being prepared uses.
PlotsToReclaim(atlas, token, width, height) ==
    {q \in Plots : /\ atlas.plots[q].used > 0
                    /\ atlas.plots[q].lastUse # token
                    /\ width <= PLOT_WIDTH /\ height <= PLOT_HEIGHT}
\* Plots in the same state are interchangeable: the first of each kind.
FirstOfKind(S, atlas) ==
    {q \in S : \A r \in S : atlas.plots[r] = atlas.plots[q] => q <= r}

\* What one addToAtlas(width, height) call may do: fail for lack of room; place
\* the rectangle in a plot that has room; or reclaim a plot and place the
\* rectangle there.  notify tells whether the eviction callback is run for the
\* reclaimed region.
AllocOutcomes(atlas, token, width, height, Notify) ==
    {[kind |-> "fail"]}
    \cup {[kind |-> "fit", plot |-> p] :
            p \in FirstOfKind(PlotsWithRoom(atlas, width, height), atlas)}
    \cup {[kind |-> "evict", plot |-> p, notify |-> n] :
            p \in FirstOfKind(PlotsToReclaim(atlas, token, width, height), atlas),
            n \in Notify}

\* The region id and the location a successful outcome yields.
AllocID(atlas, out) ==
    [plot |-> out.plot,
     gen |-> IF out.kind = "evict" THEN atlas.plots[out.plot].gen + 1
             ELSE atlas.plots[out.plot].gen]
AllocLocation(atlas, out) ==
    << PLOT_WIDTH * (out.plot - 1)
         + (IF out.kind = "evict" THEN 0 ELSE atlas.plots[out.plot].used), 0 >>
\* The id of the region an evicting outcome reclaims.
EvictedID(atlas, out) == [plot |-> out.plot, gen |-> atlas.plots[out.plot].gen]

\* The atlas after a successful outcome.
AllocAtlas(atlas, out, width) ==
    IF out.kind = "evict"
    THEN [atlas EXCEPT !.plots[out.plot] =
              [gen |-> @.gen + 1, used |-> width, lastUse |-> @.lastUse]]
    ELSE [atlas EXCEPT !.plots[out.plot].used = @ + width]

(***************************************************************************)
(* Shape cache (SkTDynamicHash) and liveness list (SkTInternalLList).      *)
(***************************************************************************)
\* The handles a lookup of key can land on.
Matches(cache, hp, key) == {h \in cache : hp[h].fKey = key}
\* ShapeCache::find: Null, or the entry found.
Find(cache, hp, key) ==
    IF Matches(cache, hp, key) = {} THEN Null
    ELSE CHOOSE h \in Matches(cache, hp, key) : TRUE
\* ShapeCache::remove(key): takes out the entry find(key) lands on.
CacheRemove(cache, hp, key) == cache \ {Find(cache, hp, key)}
\* ShapeCache::add
CacheAdd(cache, h) == cache \cup {h}
\* ShapeDataList::remove
ListRemove(list, h) == SelectSeq(list, LAMBDA x : x # h)
\* ShapeDataList::addToTail
AddToTail(list, h) == Append(list, h)
\* The list's head, and the entry after h (what the iterator's next() reads).
ListHead(list) == IF list = <<>> THEN Null ELSE list[1]
ListNext(list, h) ==
    LET k == CHOOSE n \in 1 .. Len(list) : list[n] = h
    IN  IF k = Len(list) THEN Null ELSE list[k + 1]

\* delete shapeData
Delete(hp, h) == [hp EXCEPT ![h] = DeletedShapeData]

\* What the scan does to the record h, in the order it does it: get (the
\* iterator hands h out), next (the iterator reads h's link and moves on),
\* readID and readKey (h's fields are read), cacheRemove, listRemove, delete.
Step(ev, h) == [ev |-> ev, h |-> h]

\* The loop with the record taken out of the list and destroyed before the
\* iterator moves on: the link it then reads is gone and the scan ends.
RECURSIVE EvictionScanRemoveFirst(_, _, _)
EvictionScanRemoveFirst(id, st, cur) ==
    IF cur = Null THEN st
    ELSE IF id = st.heap[cur].fID
         THEN [cache |-> CacheRemove(st.cache, st.heap, st.heap[cur].fKey),
               list |-> ListRemove(st.list, cur),
               heap |-> Delete(st.heap, cur),
               steps |-> st.steps \o << Step("get", cur), Step("readID", cur),
                                        Step("readKey", cur), Step("cacheRemove", cur),
                                        Step("listRemove", cur), Step("delete", cur),
                                        Step("next", cur) >>]
         ELSE EvictionScanRemoveFirst(id,
                  [st EXCEPT !.steps = @ \o << Step("get", cur), Step("readID", cur),
                                               Step("next", cur) >>],
                  ListNext(st.list, cur))

\* The loop of HandleEviction, from iterator position cur on.
RECURSIVE EvictionScan(_, _, _)
EvictionScan(id, st, cur) ==
    IF cur = Null THEN st
    ELSE LET nxt == ListNext(st.list, cur)      \* iter.next()
         IN  IF id = st.heap[cur].fID
             THEN EvictionScan(id,
                      [cache |-> CacheRemove(st.cache, st.heap, st.heap[cur].fKey),
                       list |-> ListRemove(st.list, cur),
                       heap |-> Delete(st.heap, cur),
                       steps |-> st.steps \o
                                    << Step("get", cur), Step("next", cur),
                                       Step("readID", cur), Step("readKey", cur),
                                       Step("cacheRemove", cur), Step("listRemove", cur),
                                       Step("delete", cur) >>],
                      nxt)
             ELSE EvictionScan(id,
                      [st EXCEPT !.steps = @ \o << Step("get", cur), Step("next", cur),
                                                   Step("readID", cur) >>],
                      nxt)

\* GrSmallPathRenderer::HandleEviction
HandleEvictionKeepsList(id, st) ==
    [EvictionScan(id, st, ListHead(st.list)) EXCEPT !.list = st.list]
\* The scan started at the record after the head.
HandleEvictionSkipsHead(id, st) ==
    IF st.list = <<>> THEN st
    ELSE EvictionScan(id, st, ListNext(st.list, ListHead(st.list)))
HandleEvictionRemoveFirst(id, st) == EvictionScanRemoveFirst(id, st, ListHead(st.list))
HandleEvictionAll(id, st) ==
    [cache |-> {},
     list |-> <<>>,
     steps |-> <<>>,
     heap |-> [h \in DOMAIN st.heap |->
                 IF h \in st.cache THEN DeletedShapeData ELSE st.heap[h]]]
HandleEvictionKeepsCache(id, st) ==
    [EvictionScan(id, st, ListHead(st.list)) EXCEPT !.cache = st.cache]
HandleEviction(id, st) == EvictionScan(id, st, ListHead(st.list))

(***************************************************************************)
(* Vertex packing and flushing.                                            *)
(***************************************************************************)
Uint16(x) == x % 65536

\* SmallPathOp::writePathVertices: the quad of one instance.
WritePathVerticesBatchColor(entry, sd) ==
    [positions |-> RectOffset(sd.fBounds, entry.fTranslate[1], entry.fTranslate[2]),
     color |-> op.fShapes[1].fColor,
     texCoords |-> MakeRect(Uint16(sd.fTextureCoords.fLeft),
                            Uint16(sd.fTextureCoords.fTop),
                            Uint16(sd.fTextureCoords.fRight),
                            Uint16(sd.fTextureCoords.fBottom)),
     req |-> entry.req]
WritePathVertices(entry, sd) ==
    [positions |-> RectOffset(sd.fBounds, entry.fTranslate[1], entry.fTranslate[2]),
     color |-> entry.fColor,
     texCoords |-> MakeRect(Uint16(sd.fTextureCoords.fLeft),
                            Uint16(sd.fTextureCoords.fTop),
                            Uint16(sd.fTextureCoords.fRight),
                            Uint16(sd.fTextureCoords.fBottom)),
     req |-> entry.req]

\* maxInstancesPerDraw of SmallPathOp::flush
MaxInstancesPerDrawByVertices == (IndexBufferBytes \div SizeofUint16) \div kVerticesPerQuad
MaxInstancesPerDraw == (IndexBufferBytes \div SizeofUint16) \div 6

\* SmallPathOp::flush: st holds flushInfo, the draws recorded and the draw token.
FlushAlways(st) ==
    [flushInfo |-> [fVertexOffset |-> st.flushInfo.fVertexOffset
                                      + kVerticesPerQuad * st.flushInfo.fInstancesToFlush,
                    fInstancesToFlush |-> 0],
     draws |-> Append(st.draws,
                      [vertexOffset |-> st.flushInfo.fVertexOffset,
                       instanceCount |-> st.flushInfo.fInstancesToFlush,
                       maxInstancesPerDraw |-> MaxInstancesPerDraw]),
     token |-> st.token + 1]
FlushKeepsPending(st) ==
    IF st.flushInfo.fInstancesToFlush # 0
    THEN [flushInfo |-> st.flushInfo,
          draws |-> Append(st.draws,
                           [vertexOffset |-> st.flushInfo.fVertexOffset,
                            instanceCount |-> st.flushInfo.fInstancesToFlush,
                            maxInstancesPerDraw |-> MaxInstancesPerDraw]),
          token |-> st.token + 1]
    ELSE st
\* The flush that advances the vertex offset by the instances, not by their
\* vertices.
FlushAdvancesByInstances(st) ==
    IF st.flushInfo.fInstancesToFlush # 0
    THEN [flushInfo |->
              [fVertexOffset |-> st.flushInfo.fVertexOffset
                                   + st.flushInfo.fInstancesToFlush,
               fInstancesToFlush |-> 0],
          draws |-> Append(st.draws,
                           [vertexOffset |-> st.flushInfo.fVertexOffset,
                            instanceCount |-> st.flushInfo.fInstancesToFlush,
                            maxInstancesPerDraw |-> MaxInstancesPerDraw]),
          token |-> st.token + 1]
    ELSE st
FlushNoAdvance(st) ==
    IF st.flushInfo.fInstancesToFlush # 0
    THEN [flushInfo |-> [st.flushInfo EXCEPT !.fInstancesToFlush = 0],
          draws |-> Append(st.draws,
                           [vertexOffset |-> st.flushInfo.fVertexOffset,
                            instanceCount |-> st.flushInfo.fInstancesToFlush,
                            maxInstancesPerDraw |-> MaxInstancesPerDraw]),
          token |-> st.token + 1]
    ELSE st
Flush(st) ==
    IF st.flushInfo.fInstancesToFlush # 0
    THEN [flushInfo |->
              [fVertexOffset |-> st.flushInfo.fVertexOffset
                                   + kVerticesPerQuad * st.flushInfo.fInstancesToFlush,
               fInstancesToFlush |-> 0],
          draws |-> Append(st.draws,
                           [vertexOffset |-> st.flushInfo.fVertexOffset,
                            instanceCount |-> st.flushInfo.fInstancesToFlush,
                            maxInstancesPerDraw |-> MaxInstancesPerDraw]),
          token |-> st.token + 1]
    ELSE st

Event(ev, idx, arg) == [ev |-> ev, i |-> idx, arg |-> arg]

(***************************************************************************)
(* Initial state: a renderer just constructed.                             *)
(***************************************************************************)
NoFlushInfo == [fVertexOffset |-> 0, fInstancesToFlush |-> 0]
NoTarget == [buffers |-> "none", firstVertex |-> 0, vertices |-> <<>>, draws |-> <<>>]

InitRenderer ==
    /\ fAtlas = NoAtlas
    /\ nextDrawToken = 1
    /\ heap = <<>>
    /\ fShapeCache = {}
    /\ fShapeList = <<>>
    /\ opList = <<>>
    /\ nRequests = 0
    /\ pc = "idle"
    /\ op = NoOp
    /\ i = 0
    /\ offset = 0
    /\ shapeData = Null
    /\ flushInfo = NoFlushInfo
    /\ target = NoTarget
    /\ trace = <<>>

Init == InitRenderer /\ mip = NoMip /\ gate = NoGate /\ gamma = NoGamma

(***************************************************************************)
(* GrSmallPathRenderer::onDrawPath, with the op list's recordOp: the new   *)
(* op is offered to the recorded op k (k = 0: to none) and appended when   *)
(* it is not absorbed.                                                     *)
(***************************************************************************)
OnDrawPath(shape, viewMatrix, color, paint, makeOk, k) ==
    /\ pc = "idle"
    /\ nRequests < MaxRequests
    /\ nRequests' = nRequests + 1
    /\ IF fAtlas = NoAtlas /\ ~makeOk
       THEN UNCHANGED <<fAtlas, opList>>
       ELSE /\ fAtlas' = IF fAtlas = NoAtlas THEN MakeAtlas ELSE fAtlas
            /\ LET new == SmallPathOp(nRequests + 1, color, shape, viewMatrix, paint)
               IN  opList' = IF k # 0 /\ CanCombine(opList[k], new)
                             THEN [opList EXCEPT ![k] = Combined(@, new)]
                             ELSE Append(opList, new)
    /\ UNCHANGED <<nextDrawToken, heap, fShapeCache, fShapeList, pc>>
    /\ UNCHANGED locals
    /\ UNCHANGED pure

(***************************************************************************)
(* SmallPathOp::onPrepareDraws, up to the loop.  buffers tells what the    *)
(* target could hand out; firstVertex is the offset makeVertexSpace gives. *)
(***************************************************************************)
\* if (!vertices || !flushInfo.fIndexBuffer) return;
BuffersAcquiredVerticesOnly(buffers) == buffers # "noVertices"
BuffersAcquired(buffers) == buffers = "ok"

PrepareStart(buffers, firstVertex) ==
    /\ pc \in {"idle", "next"}
    /\ opList # <<>>
    /\ LET o == Head(opList)
           instanceCount == Len(o.fShapes)
       IN  /\ op' = o
           /\ opList' = Tail(opList)
           /\ i' = 0
           /\ offset' = 0
           /\ shapeData' = Null
           /\ IF /\ ~o.fUsesDistanceField
                 /\ UsesLocalCoords(o.fHelper)
                 /\ ~Invertible(o.fViewMatrix)
              THEN /\ pc' = "done"
                   /\ trace' = << Event("abort", 0, "viewmatrix") >>
                   /\ UNCHANGED <<flushInfo, target>>
              ELSE IF ~BuffersAcquired(buffers)
              THEN /\ pc' = "done"
                   /\ trace' = << Event("abort", 0, buffers) >>
                   /\ target' = [NoTarget EXCEPT !.buffers = buffers]
                   /\ UNCHANGED flushInfo
              ELSE /\ pc' = "loop"
                   /\ trace' = <<>>
                   /\ flushInfo' = [fVertexOffset |-> firstVertex,
                                    fInstancesToFlush |-> 0]
                   /\ target' = [buffers |-> buffers,
                                 firstVertex |-> firstVertex,
                                 vertices |-> [s \in 0 .. instanceCount - 1 |-> NoQuad],
                                 draws |-> <<>>]
    /\ UNCHANGED <<renderer, nRequests>>
    /\ UNCHANGED pure

(***************************************************************************)
(* The end of one loop iteration for an instance that has a rendition h:   *)
(* setLastUseToken, writePathVertices, offset and fInstancesToFlush.       *)
(***************************************************************************)
\* The end of the loop body without the setLastUseToken call.
FinishInstanceNoTouch(h, atlas, hp, fi, tgt, token, tr) ==
    LET entry == op.fShapes[i + 1]
        slot == offset \div kVerticesPerQuad
        quad == WritePathVertices(entry, hp[h])
    IN  /\ fAtlas' = atlas
        /\ target' = [tgt EXCEPT !.vertices = (slot :> quad) @@ @]
        /\ offset' = offset + kVerticesPerQuad
        /\ flushInfo' = [fi EXCEPT !.fInstancesToFlush = @ + 1]
        /\ trace' = tr \o << Event("write", i, slot) >>
        /\ i' = i + 1
        /\ pc' = "loop"
FinishInstance(h, atlas, hp, fi, tgt, token, tr) ==
    LET entry == op.fShapes[i + 1]
        slot == offset \div kVerticesPerQuad
        quad == WritePathVertices(entry, hp[h])
    IN  /\ fAtlas' = SetLastUseToken(atlas, hp[h].fID, token)
        /\ target' = [tgt EXCEPT !.vertices = (slot :> quad) @@ @]
        /\ offset' = offset + kVerticesPerQuad
        /\ flushInfo' = [fi EXCEPT !.fInstancesToFlush = @ + 1]
        /\ trace' = tr \o << Event("touch", i, [id |-> hp[h].fID, token |-> token]),
                             Event("write", i, slot) >>
        /\ i' = i + 1
        /\ pc' = "loop"

\* "Remove the stale cache entry": the record found is taken out of the cache
\* and the list and deleted.
RemoveStaleKeepsCache(found, st) ==
    [cache |-> st.cache, list |-> ListRemove(st.list, found), heap |-> st.heap]
RemoveStaleCacheOnly(found, st) ==
    [cache |-> CacheRemove(st.cache, st.heap, st.heap[found].fKey),
     list |-> st.list,
     heap |-> Delete(st.heap, found)]
RemoveStale(found, st) ==
    [cache |-> CacheRemove(st.cache, st.heap, st.heap[found].fKey),
     list |-> ListRemove(st.list, found),
     heap |-> Delete(st.heap, found)]

\* The loop body up to the producer's first addToAtlas call.  rasterOk tells
\* whether the producer got as far as that call.
Lookup(rasterOk) ==
    /\ pc = "loop"
    /\ i < Len(op.fShapes)
    /\ LET entry == op.fShapes[i + 1]
           key == KeyOf(op, entry)
           found == Find(fShapeCache, heap, key)
       IN  IF found # Null /\ HasID(fAtlas, heap[found].fID)
           THEN /\ FinishInstance(found, fAtlas, heap, flushInfo, target, nextDrawToken,
                                  Append(trace, Event("hit", i, found)))
                /\ shapeData' = found
                /\ UNCHANGED <<heap, fShapeCache, fShapeList, nextDrawToken>>
           ELSE LET st0 == [cache |-> fShapeCache, list |-> fShapeList, heap |-> heap]
                    st1 == IF found # Null THEN RemoveStale(found, st0) ELSE st0
                    cache1 == st1.cache
                    list1 == st1.list
                    heap1 == st1.heap
                    h == Len(heap1) + 1
                    tr1 == Append(trace, Event(IF found # Null THEN "stale" ELSE "miss",
                                               i, found))
                    emptyBounds == ~op.fUsesDistanceField
                                   /\ RectIsEmpty(ShapeBounds(entry.fShape))
                IN  /\ fShapeCache' = cache1
                    /\ fShapeList' = list1
                    /\ IF rasterOk /\ ~emptyBounds
                       THEN /\ heap' = Append(heap1, NewShapeData)
                            /\ shapeData' = h
                            /\ pc' = "addToAtlas"
                            /\ trace' = tr1
                            /\ UNCHANGED i
                       ELSE /\ heap' = Append(heap1, DeletedShapeData)
                            /\ shapeData' = Null
                            /\ pc' = "loop"
                            /\ trace' = Append(tr1, Event("skip", i, "raster"))
                            /\ i' = i + 1
                    /\ UNCHANGED <<fAtlas, nextDrawToken, offset, flushInfo, target>>
    /\ UNCHANGED <<opList, nRequests, op>>
    /\ UNCHANGED pure

(***************************************************************************)
(* One atlas->addToAtlas call of the producer and what follows it.         *)
(***************************************************************************)
\* The producer after a successful addToAtlas: the eviction callback has run
\* inside the call if a region was reclaimed and notified; then the record is
\* filled in and added to the cache and the list.
Registered(out, fi, tgt, token, tr) ==
    LET entry == op.fShapes[i + 1]
        geo == GeometryOf(op, entry)
        st0 == [cache |-> fShapeCache, list |-> fShapeList, heap |-> heap,
                steps |-> <<>>]
        st1 == IF out.kind = "evict" /\ out.notify
               THEN HandleEviction(EvictedID(fAtlas, out), st0)
               ELSE st0
        sd == MakeShapeData(KeyOf(op, entry), geo, AllocID(fAtlas, out),
                            AllocLocation(fAtlas, out))
        heap2 == [st1.heap EXCEPT ![shapeData] = sd]
        tr1 == tr \o (IF out.kind = "evict"
                      THEN << Event("evict", i,
                                    [id |-> EvictedID(fAtlas, out),
                                     notify |-> out.notify,
                                     removed |-> Len(st0.list) - Len(st1.list),
                                     kept |-> Len(st1.list),
                                     list |-> st0.list,
                                     steps |-> st1.steps]) >>
                      ELSE <<>>)
                  \o << Event("alloc", i, TRUE), Event("register", i, shapeData) >>
    IN  /\ heap' = heap2
        /\ fShapeCache' = CacheAdd(st1.cache, shapeData)
        /\ fShapeList' = AddToTail(st1.list, shapeData)
        /\ FinishInstance(shapeData, AllocAtlas(fAtlas, out, geo.allocW), heap2,
                          fi, tgt, token, tr1)

\* First attempt; on failure the pending instances are flushed.
AddToAtlas(Notify) ==
    /\ pc = "addToAtlas"
    /\ LET geo == GeometryOf(op, op.fShapes[i + 1])
       IN  \E out \in AllocOutcomes(fAtlas, nextDrawToken, geo.allocW, geo.allocH, Notify) :
             IF out.kind # "fail"
             THEN /\ Registered(out, flushInfo, target, nextDrawToken, trace)
                  /\ UNCHANGED <<nextDrawToken, shapeData>>
             ELSE LET f == Flush([flushInfo |-> flushInfo, draws |-> target.draws,
                                  token |-> nextDrawToken])
                  IN  /\ flushInfo' = f.flushInfo
                      /\ target' = [target EXCEPT !.draws = f.draws]
                      /\ nextDrawToken' = f.token
                      /\ trace' = trace \o
                             << Event("alloc", i, FALSE),
                                Event("flush", i, flushInfo.fInstancesToFlush) >>
                      /\ pc' = "retry"
                      /\ UNCHANGED <<fAtlas, heap, fShapeCache, fShapeList, i, offset,
                                     shapeData>>
    /\ UNCHANGED <<opList, nRequests, op>>
    /\ UNCHANGED pure

\* The second attempt failed: the producer returns false, the ShapeData is
\* deleted and the loop continues with the next instance.
RetryFailsLeavesGap ==
    /\ heap' = Delete(heap, shapeData)
    /\ shapeData' = Null
    /\ trace' = trace \o << Event("alloc", i, FALSE), Event("skip", i, "atlas") >>
    /\ i' = i + 1
    /\ pc' = "loop"
    /\ offset' = offset + kVerticesPerQuad
    /\ UNCHANGED <<fAtlas, nextDrawToken, fShapeCache, fShapeList, flushInfo, target>>
RetryFails ==
    /\ heap' = Delete(heap, shapeData)
    /\ shapeData' = Null
    /\ trace' = trace \o << Event("alloc", i, FALSE), Event("skip", i, "atlas") >>
    /\ i' = i + 1
    /\ pc' = "loop"
    /\ UNCHANGED <<fAtlas, nextDrawToken, fShapeCache, fShapeList, offset,
                   flushInfo, target>>

\* Second attempt; on failure the instance is skipped.
AddToAtlasRetry(Notify) ==
    /\ pc = "retry"
    /\ LET geo == GeometryOf(op, op.fShapes[i + 1])
       IN  \E out \in AllocOutcomes(fAtlas, nextDrawToken, geo.allocW, geo.allocH, Notify) :
             IF out.kind # "fail"
             THEN /\ Registered(out, flushInfo, target, nextDrawToken, trace)
                  /\ UNCHANGED <<nextDrawToken, shapeData>>
             ELSE RetryFails
    /\ UNCHANGED <<opList, nRequests, op>>
    /\ UNCHANGED pure

\* The loop is over: the final flush.
LoopExitNoFlush ==
    /\ pc = "loop"
    /\ i = Len(op.fShapes)
    /\ trace' = Append(trace, Event("flush", i, 0))
    /\ pc' = "done"
    /\ UNCHANGED <<fAtlas, heap, fShapeCache, fShapeList, opList, nRequests, op, i,
                   offset, shapeData, flushInfo, target, nextDrawToken>>
    /\ UNCHANGED pure
LoopExit ==
    /\ pc = "loop"
    /\ i = Len(op.fShapes)
    /\ LET f == Flush([flushInfo |-> flushInfo, draws |-> target.draws,
                       token |-> nextDrawToken])
       IN  /\ flushInfo' = f.flushInfo
           /\ target' = [target EXCEPT !.draws = f.draws]
           /\ nextDrawToken' = f.token
           /\ trace' = Append(trace, Event("flush", i, flushInfo.fInstancesToFlush))
    /\ pc' = "done"
    /\ UNCHANGED <<fAtlas, heap, fShapeCache, fShapeList, opList, nRequests, op, i,
                   offset, shapeData>>
    /\ UNCHANGED pure

\* The op has been prepared and its locals go away.  The flush of the op list
\* goes on with the next recorded op; after the last one, ops are recorded again.
PrepareDone ==
    /\ pc = "done"
    /\ pc' = IF opList = <<>> THEN "idle" ELSE "next"
    /\ op' = NoOp
    /\ i' = 0
    /\ offset' = 0
    /\ shapeData' = Null
    /\ flushInfo' = NoFlushInfo
    /\ target' = NoTarget
    /\ trace' = <<>>
    /\ UNCHANGED <<renderer, opList, nRequests>>
    /\ UNCHANGED pure

(***************************************************************************)
(* Specifications.                                                         *)
(***************************************************************************)
Matrices == {M1, M4}
Buffers == {"ok", "noVertices", "noIndexBuffer"}
FirstVertices == {8}

Next ==
    \/ \E shape \in ShapeIds, viewMatrix \in Matrices, color \in {"red"},
          paint \in {"plain"}, makeOk \in BOOLEAN, k \in 0 .. Len(opList) :
          OnDrawPath(shape, viewMatrix, color, paint, makeOk, k)
    \/ \E buffers \in Buffers, firstVertex \in FirstVertices :
          PrepareStart(buffers, firstVertex)
    \/ \E rasterOk \in BOOLEAN : Lookup(rasterOk)
    \/ AddToAtlas({TRUE})
    \/ AddToAtlasRetry({TRUE})
    \/ LoopExit
    \/ PrepareDone

Spec == Init /\ [][Next]_vars

\* The same renderer with an atlas that may reclaim a region without running
\* the eviction callback (a missed invalidation notification).
NextMissed ==
    \/ \E shape \in ShapeIds, viewMatrix \in Matrices, color \in {"red"},
          paint \in {"plain"}, makeOk \in BOOLEAN, k \in 0 .. Len(opList) :
          OnDrawPath(shape, viewMatrix, color, paint, makeOk, k)
    \/ \E buffers \in Buffers, firstVertex \in FirstVertices :
          PrepareStart(buffers, firstVertex)
    \/ \E rasterOk \in BOOLEAN : Lookup(rasterOk)
    \/ AddToAtlas(BOOLEAN)
    \/ AddToAtlasRetry(BOOLEAN)
    \/ LoopExit
    \/ PrepareDone

SpecMissed == Init /\ [][NextMissed]_vars

\* The recording of requests alone, with requests of both modes and of both
\* paints, and with view matrices that differ in scale, in the
\* integer part of the translation, or in nothing once that part is stripped.
\* Shape C is small enough to stay in bitmap mode under scale 4.  The atlas is
\* always made.
CombineShapes == {"A", "C"}
CombineMatrices == {M1, M4, M4h}
NextCombine ==
    \E shape \in CombineShapes, viewMatrix \in CombineMatrices, color \in {"red"},
       paint \in Paints, k \in 0 .. Len(opList) :
       OnDrawPath(shape, viewMatrix, color, paint, TRUE, k)

SpecCombine == Init /\ [][NextCombine]_vars

(***************************************************************************)
(* The resolution selection of onPrepareDraws on its own: for one shape    *)
(* (its largest dimension) and two maximum scale factors, the mipSize      *)
(* before and after the adjustment, desiredDimension and the integer       *)
(* dimension of the key.  Shapes that pass onCanDrawPath have a largest    *)
(* dimension above 0 and at most kMaxDim.                                  *)
(***************************************************************************)
MipScales == {Rat(n, 2) : n \in 1 .. MaxScaleHalves} \cup {Rat(1, 4), Rat(1, 5)}
MipDims == {Rat(n, 2) : n \in 1 .. MaxDimHalves} \cup {I2R(kMaxDim)}
Resolution(maxScale, maxDim) ==
    [mipScale |-> MipScale(maxScale),
     mipSize0 |-> MipSize(maxScale, maxDim),
     mipSize |-> AdjustMipSize(MipSize(maxScale, maxDim)),
     desiredDimension |-> DesiredDimensionOf(maxScale, maxDim),
     dimension |-> SkScalarCeilToInt(DesiredDimensionOf(maxScale, maxDim))]

InitMip ==
    /\ InitRenderer
    /\ mip \in {[phase |-> "input", maxDim |-> d, maxScale |-> <<s1, s2>>, results |-> <<>>] :
                   d \in MipDims, s1 \in MipScales, s2 \in MipScales}
    /\ gate = NoGate
    /\ gamma = NoGamma

SelectResolution ==
    /\ mip.phase = "input"
    /\ mip' = [mip EXCEPT !.phase = "computed",
                          !.results = [n \in {1, 2} |->
                                          Resolution(mip.maxScale[n], mip.maxDim)]]
    /\ UNCHANGED <<fAtlas, nextDrawToken, heap, fShapeCache, fShapeList, opList,
                   nRequests, pc, op, i, offset, shapeData, flushInfo, target, trace,
                   gate, gamma>>

NextMip == SelectResolution

SpecMip == InitMip /\ [][NextMip]_vars

(***************************************************************************)
(* The resolution selection of one instance, loop iteration by loop        *)
(* iteration, for a batch made by SmallPathOp::Make without onCanDrawPath  *)
(* before it (as the op test factory makes it).  The constructor picks the *)
(* mode: on the Android build every batch is in distance-field mode, on    *)
(* the other builds a batch whose device bounds exceed kMaxMIP.            *)
(***************************************************************************)
Builds == {"android", "desktop"}
DirectWidths == {I2R(0), Rat(1, 2), I2R(3), I2R(50)}
DirectHeights == {I2R(0), I2R(1), I2R(40)}
DirectScales == {Rat(1, 4), I2R(1), I2R(4), I2R(8)}

\* fUsesDistanceField as the constructor sets it.
UsesDistanceFieldOn(build, width, height, scale) ==
    \/ build = "android"
    \/ RLt(I2R(kMaxMIP), RMul(width, scale))
    \/ RLt(I2R(kMaxMIP), RMul(height, scale))

InitLoops ==
    /\ InitRenderer
    /\ gate = NoGate
    /\ gamma = NoGamma
    /\ mip \in {[phase |-> "input", build |-> b, width |-> w, height |-> h,
                  maxScale |-> sc, mipSize |-> I2R(0), newMipSize |-> I2R(0),
                  iteration |-> 0, dimension |-> 0] :
                   b \in Builds, w \in DirectWidths, h \in DirectHeights,
                   sc \in DirectScales}

\* The loop body up to the first loop: the mode test, mipScale and mipSize.
SelectStart ==
    /\ mip.phase = "input"
    /\ LET maxDim == RMax(mip.width, mip.height)
           mipSize == RMul(MipScale(mip.maxScale), RAbs(maxDim))
       IN  mip' = IF ~UsesDistanceFieldOn(mip.build, mip.width, mip.height, mip.maxScale)
                  THEN [mip EXCEPT !.phase = "bitmap"]
                  ELSE IF RLt(mipSize, I2R(kIdealMinMIP))
                  THEN [mip EXCEPT !.phase = "double", !.mipSize = mipSize,
                                   !.newMipSize = mipSize]
                  ELSE [mip EXCEPT !.phase = "selected", !.mipSize = mipSize]
    /\ UNCHANGED <<fAtlas, nextDrawToken, heap, fShapeCache, fShapeList, opList,
                   nRequests, pc, op, i, offset, shapeData, flushInfo, target, trace,
                   gate, gamma>>

\* do { newMipSize *= 2; } while (newMipSize < kIdealMinMIP);  one iteration.
\* iteration tells an iteration from the one before it (its count modulo 2).
DoubleStep ==
    /\ mip.phase = "double"
    /\ LET newMipSize == RMul(mip.newMipSize, I2R(2))
       IN  mip' = [mip EXCEPT !.newMipSize = newMipSize,
                              !.iteration = 1 - @,
                              !.phase = IF RLt(newMipSize, I2R(kIdealMinMIP))
                                        THEN "double" ELSE "quarter"]
    /\ UNCHANGED <<fAtlas, nextDrawToken, heap, fShapeCache, fShapeList, opList,
                   nRequests, pc, op, i, offset, shapeData, flushInfo, target, trace,
                   gate, gamma>>

\* while (newMipSize > 4 * mipSize) { newMipSize *= 0.25f; }  one test of the
\* condition, with the iteration or with the exit and mipSize = newMipSize.
QuarterStep ==
    /\ mip.phase = "quarter"
    /\ mip' = IF RLt(RMul(I2R(4), mip.mipSize), mip.newMipSize)
              THEN [mip EXCEPT !.newMipSize = RMul(@, Rat(1, 4)), !.iteration = 1 - @]
              ELSE [mip EXCEPT !.phase = "selected", !.mipSize = mip.newMipSize]
    /\ UNCHANGED <<fAtlas, nextDrawToken, heap, fShapeCache, fShapeList, opList,
                   nRequests, pc, op, i, offset, shapeData, flushInfo, target, trace,
                   gate, gamma>>

\* desiredDimension = SkTMin(mipSize, kMaxMIP) and the dimension of the key.
SelectDone ==
    /\ mip.phase = "selected"
    /\ mip' = [mip EXCEPT !.phase = "done",
                          !.dimension = SkScalarCeilToInt(RMin(mip.mipSize, I2R(kMaxMIP)))]
    /\ UNCHANGED <<fAtlas, nextDrawToken, heap, fShapeCache, fShapeList, opList,
                   nRequests, pc, op, i, offset, shapeData, flushInfo, target, trace,
                   gate, gamma>>

NextLoops == SelectStart \/ DoubleStep \/ QuarterStep \/ SelectDone

\* The loops run on: a step that can be taken is taken.
SpecLoops == InitLoops /\ [][NextLoops]_vars /\ WF_vars(NextLoops)

(***************************************************************************)
(* SkColorSpacePriv.h: the named transfer functions and the validity test  *)
(* of a parametric transfer function.  A float is a rational, or NaN.      *)
(***************************************************************************)
NaN == <<0, 0>>
SkScalarIsNaN(x) == x[2] = 0

\* v + FLT_MIN in float arithmetic: FLT_MIN = 2^-126 is less than half a unit
\* in the last place of every v of magnitude 2^-102 or more, so the sum
\* rounds to v; v is such a value wherever this is called (1.0f).
add_epsilon(v) == v

is_zero_to_one(v) == RLe(I2R(0), v) /\ RLe(v, add_epsilon(I2R(1)))

is_valid_transfer_fn(coeffs) ==
    IF \/ SkScalarIsNaN(coeffs.fA) \/ SkScalarIsNaN(coeffs.fB)
       \/ SkScalarIsNaN(coeffs.fC) \/ SkScalarIsNaN(coeffs.fD)
       \/ SkScalarIsNaN(coeffs.fE) \/ SkScalarIsNaN(coeffs.fF)
       \/ SkScalarIsNaN(coeffs.fG)
    THEN FALSE
    ELSE IF ~is_zero_to_one(coeffs.fD)
    THEN FALSE
    ELSE IF coeffs.fD = I2R(0) /\ (I2R(0) = coeffs.fA \/ I2R(0) = coeffs.fG)
    THEN FALSE
    ELSE IF RLe(I2R(1), coeffs.fD) /\ I2R(0) = coeffs.fE
    THEN FALSE
    ELSE IF (I2R(0) = coeffs.fA \/ I2R(0) = coeffs.fG) /\ I2R(0) = coeffs.fC
    THEN FALSE
    ELSE IF RLt(coeffs.fC, I2R(0))
    THEN FALSE
    ELSE IF RLt(coeffs.fA, I2R(0)) \/ RLt(coeffs.fG, I2R(0))
    THEN FALSE
    ELSE TRUE

value_to_parametric(exponent) ==
    [fA |-> I2R(1), fB |-> I2R(0), fC |-> I2R(0), fD |-> I2R(0), fE |-> I2R(0),
     fF |-> I2R(0), fG |-> exponent]

\* named_to_parametric: the struct after the call and the value returned.
named_to_parametric(coeffs, gammaNamed) ==
    CASE gammaNamed = "kSRGB_SkGammaNamed" ->
            [coeffs |-> [fA |-> RDiv(I2R(1), Rat(1055, 1000)),
                         fB |-> RDiv(Rat(55, 1000), Rat(1055, 1000)),
                         fC |-> RDiv(I2R(1), Rat(1292, 100)),
                         fD |-> Rat(4045, 100000),
                         fE |-> I2R(0),
                         fF |-> I2R(0),
                         fG |-> Rat(24, 10)],
             result |-> TRUE]
      [] gammaNamed = "k2Dot2Curve_SkGammaNamed" ->
            [coeffs |-> value_to_parametric(Rat(22, 10)), result |-> TRUE]
      [] gammaNamed = "kLinear_SkGammaNamed" ->
            [coeffs |-> [fA |-> I2R(0), fB |-> I2R(0), fC |-> I2R(1),
                         fD |-> add_epsilon(I2R(1)),
                         fE |-> I2R(0), fF |-> I2R(0), fG |-> I2R(0)],
             result |-> TRUE]
      [] OTHER -> [coeffs |-> coeffs, result |-> FALSE]

\* SkGammaNamed, and what the caller's struct may hold before the call.
SkGammaNamed ==
    {"kSRGB_SkGammaNamed", "k2Dot2Curve_SkGammaNamed", "kLinear_SkGammaNamed",
     "kNonStandard_SkGammaNamed"}
TransferFns ==
    [fA : {I2R(0), I2R(1)}, fB : {I2R(0)}, fC : {I2R(-1), I2R(0), I2R(1)},
     fD : {I2R(0), Rat(1, 2), I2R(1), I2R(2)}, fE : {I2R(0), I2R(1)},
     fF : {I2R(0)}, fG : {NaN, I2R(-1), I2R(0), I2R(2)}]

InitGamma ==
    /\ InitRenderer
    /\ mip = NoMip
    /\ gate = NoGate
    /\ gamma \in {[phase |-> "input", gammaNamed |-> g, coeffs |-> c,
                    result |-> FALSE, valid |-> FALSE] :
                     g \in SkGammaNamed, c \in TransferFns}

\* The call of named_to_parametric on the caller's struct.
NamedToParametric ==
    /\ gamma.phase = "input"
    /\ LET r == named_to_parametric(gamma.coeffs, gamma.gammaNamed)
       IN  gamma' = [gamma EXCEPT !.phase = "written", !.coeffs = r.coeffs,
                                  !.result = r.result]
    /\ UNCHANGED <<fAtlas, nextDrawToken, heap, fShapeCache, fShapeList, opList,
                   nRequests, pc, op, i, offset, shapeData, flushInfo, target, trace,
                   mip, gate>>

\* The call of is_valid_transfer_fn on the struct as it is then.
IsValidTransferFn ==
    /\ gamma.phase = "written"
    /\ gamma' = [gamma EXCEPT !.phase = "checked",
                              !.valid = is_valid_transfer_fn(gamma.coeffs)]
    /\ UNCHANGED <<fAtlas, nextDrawToken, heap, fShapeCache, fShapeList, opList,
                   nRequests, pc, op, i, offset, shapeData, flushInfo, target, trace,
                   mip, gate>>

NextGamma == NamedToParametric \/ IsValidTransferFn

SpecGamma == InitGamma /\ [][NextGamma]_vars

(***************************************************************************)
(* GrSmallPathRenderer::onCanDrawPath.  args holds what the predicate      *)
(* reads of CanDrawPathArgs: the caps' shader derivative support, the      *)
(* shape's hasUnstyledKey, style().isSimpleFill(), inverseFilled() and     *)
(* styledBounds(), fAAType, and the view matrix's hasPerspective() and     *)
(* getMinMaxScales() (whether it succeeds, and the factors it gives).      *)
(***************************************************************************)
kMinSize == Rat(1, 2)
kMaxSize == 2 * kMaxMIP

onCanDrawPathAnyDim(args) ==
    /\ args.shaderDerivativeSupport
    /\ args.hasUnstyledKey
    /\ args.isSimpleFill
    /\ args.fAAType = "kCoverage"
    /\ ~args.inverseFilled
    /\ ~args.hasPerspective
    /\ args.getMinMaxScales
    /\ LET bounds == args.styledBounds
           minDim == RMin(RectWidth(bounds), RectHeight(bounds))
           maxDim == RMax(RectWidth(bounds), RectHeight(bounds))
           minSize == RMul(minDim, RAbs(args.scaleFactors[1]))
           maxSize == RMul(maxDim, RAbs(args.scaleFactors[2]))
       IN  RLe(kMinSize, minSize) /\ RLe(maxSize, I2R(kMaxSize))
onCanDrawPath(args) ==
    /\ args.shaderDerivativeSupport
    /\ args.hasUnstyledKey
    /\ args.isSimpleFill
    /\ args.fAAType = "kCoverage"
    /\ ~args.inverseFilled
    /\ ~args.hasPerspective
    /\ args.getMinMaxScales
    /\ LET bounds == args.styledBounds
           minDim == RMin(RectWidth(bounds), RectHeight(bounds))
           maxDim == RMax(RectWidth(bounds), RectHeight(bounds))
           minSize == RMul(minDim, RAbs(args.scaleFactors[1]))
           maxSize == RMul(maxDim, RAbs(args.scaleFactors[2]))
       IN  /\ RLe(maxDim, I2R(kMaxDim))
           /\ RLe(kMinSize, minSize)
           /\ RLe(maxSize, I2R(kMaxSize))

\* The requests the predicate is asked about: every combination of the
\* flags, bounds at and beyond kMaxDim and below kMinSize, and scale factors
\* that bring the bounds to and beyond kMaxSize.
GateBounds ==
    {ShapeBounds("A"),
     MakeRect(I2R(0), I2R(0), I2R(kMaxDim), I2R(1)),
     MakeRect(I2R(0), I2R(0), I2R(kMaxDim + 1), I2R(10)),
     MakeRect(I2R(0), I2R(0), I2R(1), Rat(1, 4))}
GateScales == {<<I2R(1), I2R(1)>>, <<Rat(1, 2), I2R(4)>>, <<I2R(4), I2R(5)>>}
CanDrawPathArgs ==
    [shaderDerivativeSupport : BOOLEAN, hasUnstyledKey : BOOLEAN,
     isSimpleFill : BOOLEAN, fAAType : {"kCoverage", "kNone"},
     inverseFilled : BOOLEAN, hasPerspective : BOOLEAN,
     getMinMaxScales : BOOLEAN, scaleFactors : GateScales,
     styledBounds : GateBounds]

InitGate ==
    /\ InitRenderer
    /\ mip = NoMip
    /\ gamma = NoGamma
    /\ gate \in {[phase |-> "input", args |-> a, result |-> FALSE] : a \in CanDrawPathArgs}

\* The call of onCanDrawPath: a const member function, it writes nothing.
CanDrawPath ==
    /\ gate.phase = "input"
    /\ gate' = [gate EXCEPT !.phase = "computed", !.result = onCanDrawPath(gate.args)]
    /\ UNCHANGED <<fAtlas, nextDrawToken, heap, fShapeCache, fShapeList, opList,
                   nRequests, pc, op, i, offset, shapeData, flushInfo, target, trace,
                   mip, gamma>>

\* The predicate next to the recording of requests, so that there are an
\* atlas and batches for it to leave alone.
NextGate ==
    \/ CanDrawPath
    \/ \E k \in 0 .. Len(opList) : OnDrawPath("A", M1, "red", "plain", TRUE, k)

SpecGate == InitGate /\ [][NextGate]_vars

\* The renderer with requests for one shape that differ in color and in the
\* integer part of the translation, so that the instances of a combined batch
\* carry different colors and translations; buffers are always acquired.
MergeMatrices == {M1, M1b, M4}
NextMerge ==
    \/ \E viewMatrix \in MergeMatrices, color \in Colors, k \in 0 .. Len(opList) :
          OnDrawPath("A", viewMatrix, color, "plain", TRUE, k)
    \/ \E firstVertex \in FirstVertices : PrepareStart("ok", firstVertex)
    \/ \E rasterOk \in BOOLEAN : Lookup(rasterOk)
    \/ AddToAtlas({TRUE})
    \/ AddToAtlasRetry({TRUE})
    \/ LoopExit
    \/ PrepareDone

SpecMerge == Init /\ [][NextMerge]_vars

(***************************************************************************)
(* Helpers of the properties.                                              *)
(***************************************************************************)
ListSet(list) == {list[n] : n \in 1 .. Len(list)}
\* The events a step of the producer adds to the trace.
NewEvents ==
    IF pc \in {"loop", "addToAtlas", "retry"} /\ Len(trace') >= Len(trace)
    THEN SubSeq(trace', Len(trace) + 1, Len(trace'))
    ELSE <<>>
\* The regions whose eviction handler ran in this step.
EvictedNow ==
    {NewEvents[n].arg.id :
        n \in {m \in 1 .. Len(NewEvents) :
                 NewEvents[m].ev = "evict" /\ NewEvents[m].arg.notify}}
\* The handles that stale detection removed in this step.
StaleNow == {NewEvents[n].arg : n \in {m \in 1 .. Len(NewEvents) : NewEvents[m].ev = "stale"}}

(***************************************************************************)
(* C1  Eviction completeness.  In every step in which the eviction handler *)
(* runs for a region R, afterwards no record of region R is in the shape   *)
(* cache (so none is findable under any key) and none is in the liveness   *)
(* list, and every record that was registered with another region is still *)
(* in both, unchanged and in the same list order.                          *)
(***************************************************************************)
EvictionComplete(R) ==
    /\ \A h \in fShapeCache \cup ListSet(fShapeList) :
          heap[h].fID = R => h \notin fShapeCache' \cup ListSet(fShapeList')
    /\ \A h \in fShapeCache' : heap'[h].fID # R
    /\ \A h \in ListSet(fShapeList') : heap'[h].fID # R
    /\ \A h \in fShapeCache : heap[h].fID # R => h \in fShapeCache' /\ heap'[h] = heap[h]
    /\ LET others == SelectSeq(fShapeList, LAMBDA h : heap[h].fID # R)
       IN  /\ Len(fShapeList') >= Len(others)
           /\ SubSeq(fShapeList', 1, Len(others)) = others

C1_EvictionCompleteness == [][\A R \in EvictedNow : EvictionComplete(R)]_vars

\* An eviction has removed a record of its region while a record of another
\* region stayed registered.
C1_Witness ==
    \E n \in 1 .. Len(trace) :
        /\ trace[n].ev = "evict"
        /\ trace[n].arg.notify
        /\ trace[n].arg.removed >= 1
        /\ trace[n].arg.kept >= 1

(***************************************************************************)
(* C2  Cache coherence.  In every step, every record registered in the     *)
(* cache either stays registered, unchanged (key, region id, bounds,       *)
(* texture rectangle) and found under its key, or is invalidated in that   *)
(* step by the eviction of its region or by stale detection; and a lookup  *)
(* of the key of a registered record whose region is resident returns that *)
(* record, touches its region and writes its texture rectangle.            *)
(***************************************************************************)
C2_Step ==
    /\ \A h \in fShapeCache :
          \/ heap[h].fID \in EvictedNow
          \/ h \in StaleNow
          \/ /\ h \in fShapeCache'
             /\ heap'[h] = heap[h]
             /\ Find(fShapeCache', heap', heap[h].fKey) = h
    /\ (pc = "loop" /\ i < Len(op.fShapes)) =>
          \A h \in fShapeCache :
             (heap[h].fKey = KeyOf(op, op.fShapes[i + 1]) /\ HasID(fAtlas, heap[h].fID))
             => /\ shapeData' = h
                /\ NewEvents[1] = Event("hit", i, h)
                /\ target'.vertices[offset \div kVerticesPerQuad].texCoords
                     = heap[h].fTextureCoords
                /\ fShapeList' = fShapeList
    /\ \A n \in 1 .. Len(NewEvents) :
          NewEvents[n].ev = "register" =>
             LET h == NewEvents[n].arg
                 key == KeyOf(op, op.fShapes[i + 1])
             IN  /\ h \in fShapeCache'
                 /\ heap'[h].state = "live"
                 /\ heap'[h].fKey = key
                 /\ Find(fShapeCache', heap', key) = h
                 /\ HasID(fAtlas', heap'[h].fID)

C2_CacheCoherence == [][C2_Step]_vars

\* A lookup hit a record that an earlier batch registered, and in the same
\* batch another record was registered.
C2_Witness ==
    /\ \E n \in 1 .. Len(trace) :
          /\ trace[n].ev = "hit"
          /\ \A m \in 1 .. Len(trace) :
                trace[m].ev = "register" => trace[m].arg # trace[n].arg
    /\ \E n \in 1 .. Len(trace) : trace[n].ev = "register"

(***************************************************************************)
(* Slots of the vertex space: slot s holds the vertices 4s .. 4s+3.        *)
(***************************************************************************)
WrittenSlots == {s \in DOMAIN target.vertices : target.vertices[s] # NoQuad}
\* The slots the n-th recorded draw covers.
DrawSlots(n) ==
    LET d == target.draws[n]
        first == d.vertexOffset - target.firstVertex
    IN  {s \in 0 .. (first + kVerticesPerQuad * d.instanceCount) \div kVerticesPerQuad :
            /\ first <= kVerticesPerQuad * s
            /\ kVerticesPerQuad * s < first + kVerticesPerQuad * d.instanceCount}
CoveredSlots == UNION {DrawSlots(n) : n \in 1 .. Len(target.draws)}
\* The trace without the evictions that run inside an addToAtlas call.
ProducerTrace == SelectSeq(trace, LAMBDA e : e.ev # "evict")
InPrepare == pc \in {"loop", "addToAtlas", "retry", "done"}

(***************************************************************************)
(* C3  Flush-and-retry protocol.  For one shape there are at most two      *)
(* addToAtlas attempts; a second attempt happens only right after a failed *)
(* first attempt and the flush that follows it; after that flush nothing   *)
(* is pending and every written instance has been submitted; a failed      *)
(* first attempt is always followed by the flush and then the retry; and a *)
(* failed second attempt makes the producer report failure (the instance   *)
(* is skipped).                                                            *)
(***************************************************************************)
C3_FlushAndRetry ==
    LET T == ProducerTrace
    IN  /\ \A n \in 1 .. Len(T) :
              T[n].ev = "alloc" =>
                 LET earlier == {m \in 1 .. n - 1 : T[m].ev = "alloc" /\ T[m].i = T[n].i}
                 IN  /\ Cardinality(earlier) <= 1
                     /\ earlier # {} =>
                           /\ n >= 3
                           /\ T[n - 1].ev = "flush" /\ T[n - 1].i = T[n].i
                           /\ T[n - 2] = Event("alloc", T[n].i, FALSE)
                     /\ (earlier = {} /\ ~T[n].arg) =>
                           /\ n + 1 <= Len(T)
                           /\ T[n + 1].ev = "flush" /\ T[n + 1].i = T[n].i
                           /\ IF n + 1 = Len(T) THEN pc = "retry"
                              ELSE T[n + 2].ev = "alloc" /\ T[n + 2].i = T[n].i
                     /\ (earlier # {} /\ ~T[n].arg) =>
                           /\ n + 1 <= Len(T)
                           /\ T[n + 1] = Event("skip", T[n].i, "atlas")
        /\ pc = "retry" =>
              /\ flushInfo.fInstancesToFlush = 0
              /\ WrittenSlots = CoveredSlots

\* A first attempt failed with an instance pending, the flush submitted it,
\* and the retry failed too, in a distance-field batch.
C3_Witness ==
    /\ op # NoOp
    /\ op.fUsesDistanceField
    /\ \E n \in 1 .. Len(trace) :
          /\ trace[n] = Event("skip", trace[n].i, "atlas")
          /\ \E m \in 1 .. n : trace[m].ev = "flush" /\ trace[m].arg >= 1
                               /\ trace[m].i = trace[n].i

(***************************************************************************)
(* C4  No duplicate submission.  The draws recorded in one preparation     *)
(* cover pairwise disjoint vertex ranges, each holding written instances;  *)
(* no request is written to two slots; a flush leaves nothing pending and  *)
(* leaves the vertex offset just past the submitted instances; and, when   *)
(* the preparation is over, an instance whose first attempt failed and     *)
(* whose retry succeeded is covered by a draw recorded after the forced    *)
(* flush.                                                                  *)
(***************************************************************************)
SubmittedInstances ==
    LET RECURSIVE Sum(_)
        Sum(n) == IF n = 0 THEN 0 ELSE target.draws[n].instanceCount + Sum(n - 1)
    IN  Sum(Len(target.draws))
\* Draws recorded before the n-th event of the trace.
DrawsBefore(n) == Cardinality({m \in 1 .. n : trace[m].ev = "flush" /\ trace[m].arg > 0})

C4_NoDuplicateSubmission ==
    InPrepare =>
    /\ \A a, b \in 1 .. Len(target.draws) : a # b => DrawSlots(a) \cap DrawSlots(b) = {}
    /\ \A a \in 1 .. Len(target.draws) :
          /\ target.draws[a].instanceCount >= 1
          /\ Cardinality(DrawSlots(a)) = target.draws[a].instanceCount
          /\ DrawSlots(a) \subseteq WrittenSlots
    /\ \A s, t \in WrittenSlots :
          target.vertices[s].req = target.vertices[t].req => s = t
    /\ flushInfo.fVertexOffset
          = target.firstVertex + kVerticesPerQuad * SubmittedInstances
    /\ pc \in {"retry", "done"} => flushInfo.fInstancesToFlush = 0
    /\ pc = "done" =>
          \A n \in 1 .. Len(trace) :
             (/\ trace[n].ev = "write"
              /\ \E m \in 1 .. n : trace[m] = Event("alloc", trace[n].i, FALSE))
             => \E a \in 1 .. Len(target.draws) :
                   /\ trace[n].arg \in DrawSlots(a)
                   /\ a > DrawsBefore(n)

\* A preparation is over in which a forced flush submitted an instance and the
\* instance that forced it was drawn by a later draw.
C4_Witness ==
    /\ pc = "done"
    /\ Len(target.draws) >= 2
    /\ \E n \in 1 .. Len(trace) :
          /\ trace[n].ev = "write"
          /\ \E m \in 1 .. n : trace[m] = Event("alloc", trace[n].i, FALSE)

(***************************************************************************)
(* What became of the instance at position n of the batch.                 *)
(***************************************************************************)
Aborted == trace # <<>> /\ trace[1].ev = "abort"
Drawn(n) ==
    \E s \in WrittenSlots \cap CoveredSlots :
        target.vertices[s].req = op.fShapes[n].req
SkippedFor(n, why) == \E m \in 1 .. Len(trace) : trace[m] = Event("skip", n - 1, why)
AllocFailures(n) ==
    Cardinality({m \in 1 .. Len(trace) : trace[m] = Event("alloc", n - 1, FALSE)})

\* The statement of C5 as the specification words it, read in its weakest
\* form (only preparations that acquired their buffers): when the preparation
\* is over, every queued instance is drawn or was skipped after two failed
\* texture allocations.
C5_DrawnOrAllocationSkipped ==
    (pc = "done" /\ ~Aborted) =>
       \A n \in 1 .. Len(op.fShapes) :
          Drawn(n) \/ (SkippedFor(n, "atlas") /\ AllocFailures(n) = 2)

(***************************************************************************)
(* C5  Accounting.  When a preparation that acquired its buffers is over,  *)
(* each queued instance is in exactly one of three cases: covered by a     *)
(* recorded draw; skipped after two failed texture allocations; skipped    *)
(* because its producer gave up before asking the atlas for space (empty   *)
(* device bounds, pixmap allocation failure).  A preparation that did not  *)
(* acquire its buffers records no draw for any of its instances.           *)
(***************************************************************************)
C5_Accounting ==
    pc = "done" =>
       IF Aborted
       THEN /\ target.draws = <<>>
            /\ \A n \in 1 .. Len(op.fShapes) : ~Drawn(n)
       ELSE \A n \in 1 .. Len(op.fShapes) :
               /\ \/ Drawn(n)
                  \/ SkippedFor(n, "atlas") /\ AllocFailures(n) = 2
                  \/ SkippedFor(n, "raster") /\ AllocFailures(n) = 0
               /\ ~(Drawn(n) /\ SkippedFor(n, "atlas"))
               /\ ~(Drawn(n) /\ SkippedFor(n, "raster"))
               /\ ~(SkippedFor(n, "atlas") /\ SkippedFor(n, "raster"))

\* A preparation is over in which one instance was drawn, one was skipped
\* after two failed allocations and one was skipped by its producer.
C5_Witness ==
    /\ pc = "done"
    /\ ~Aborted
    /\ \E a, b, c \in 1 .. Len(op.fShapes) :
          /\ Drawn(a)
          /\ SkippedFor(b, "atlas")
          /\ SkippedFor(c, "raster")

(***************************************************************************)
(* The draw calls one recorded mesh turns into: a patterned mesh is sent   *)
(* in runs of at most maxInstancesPerDraw repetitions of the pattern, each *)
(* run starting at the vertex after the last one of the run before.        *)
(***************************************************************************)
RECURSIVE PatternedRuns(_, _, _)
PatternedRuns(baseVertex, remaining, maxRepetitions) ==
    IF remaining <= 0 \/ maxRepetitions <= 0 THEN <<>>
    ELSE LET count == IF remaining < maxRepetitions THEN remaining ELSE maxRepetitions
         IN  << [baseVertex |-> baseVertex, instanceCount |-> count] >>
             \o PatternedRuns(baseVertex + kVerticesPerQuad * count,
                              remaining - count, maxRepetitions)
PatternedDraws(mesh) ==
    PatternedRuns(mesh.vertexOffset, mesh.instanceCount, mesh.maxInstancesPerDraw)

\* The positive flushes of the trace, in order.
PositiveFlushes == SelectSeq(trace, LAMBDA e : e.ev = "flush" /\ e.arg > 0)
CeilDiv(a, b) == (a + b - 1) \div b
RECURSIVE RunsTotal(_)
RunsTotal(runs) == IF runs = <<>> THEN 0 ELSE Head(runs).instanceCount + RunsTotal(Tail(runs))

(***************************************************************************)
(* C6  Chunking.  With C = (index buffer size in indices) / 6, a flush of  *)
(* N > 0 pending instances records one mesh of N instances that is sent as *)
(* ceil(N/C) draw calls of at most C instances each, the first starting at *)
(* the first pending instance and each next one right after the one        *)
(* before, N instances in all; a flush of N = 0 records nothing.           *)
(***************************************************************************)
C6_Chunking ==
    InPrepare =>
    LET C == (IndexBufferBytes \div SizeofUint16) \div kIndicesPerQuad
    IN  /\ Len(target.draws) = Len(PositiveFlushes)
        /\ \A n \in 1 .. Len(target.draws) :
              LET d == target.draws[n]
                  N == d.instanceCount
                  runs == PatternedDraws(d)
              IN  /\ N = PositiveFlushes[n].arg
                  /\ Len(runs) = CeilDiv(N, C)
                  /\ \A k \in 1 .. Len(runs) :
                        /\ runs[k].instanceCount >= 1
                        /\ runs[k].instanceCount <= C
                        /\ runs[k].baseVertex =
                             IF k = 1 THEN d.vertexOffset
                             ELSE runs[k - 1].baseVertex
                                  + kVerticesPerQuad * runs[k - 1].instanceCount
                  /\ RunsTotal(runs) = N

\* A flush of more instances than one draw call takes, and a flush of nothing.
C6_Witness ==
    /\ pc = "done"
    /\ \E n \in 1 .. Len(target.draws) :
          /\ target.draws[n].instanceCount > target.draws[n].maxInstancesPerDraw
          /\ Len(PatternedDraws(target.draws[n])) >= 2
    /\ \E m \in 1 .. Len(trace) : trace[m].ev = "flush" /\ trace[m].arg = 0

(***************************************************************************)
(* C7  Draw order.  Requests are numbered in the order they were made, so  *)
(* the instances of a batch were accumulated in increasing request number. *)
(* The written slots hold increasing request numbers, and a later draw     *)
(* covers later slots than an earlier draw: the draws submit the drawn     *)
(* instances in the order they were accumulated.                           *)
(***************************************************************************)
C7_DrawOrder ==
    InPrepare =>
    /\ \A s, t \in WrittenSlots :
          s < t => target.vertices[s].req < target.vertices[t].req
    /\ \A a, b \in 1 .. Len(target.draws) :
          a < b => \A s \in DrawSlots(a), t \in DrawSlots(b) : s < t
    /\ \A a \in 1 .. Len(target.draws) :
          LET runs == PatternedDraws(target.draws[a])
          IN  \A k \in 1 .. Len(runs) - 1 : runs[k].baseVertex < runs[k + 1].baseVertex

\* A batch of three instances made by combining, of which the middle one was
\* skipped and the other two went out in two draws.
C7_Witness ==
    /\ pc = "done"
    /\ Len(op.fShapes) = 3
    /\ Len(target.draws) = 2
    /\ Drawn(1) /\ Drawn(3)
    /\ SkippedFor(2, "atlas")

(***************************************************************************)
(* C8  Stale entry handling.  A lookup that finds a record whose region is *)
(* not resident removes that record, and only it, from the cache and from  *)
(* the list and deletes it, writes nothing, and goes on as a miss to the   *)
(* producer (or skips the instance if the producer gives up); the removal  *)
(* comes before every allocation attempt for the instance; and a record    *)
(* registered afterwards is the only record of its key.  The preparation   *)
(* is never aborted by it.                                                 *)
(***************************************************************************)
C8_Step ==
    /\ (pc = "loop" /\ i < Len(op.fShapes)) =>
          LET key == KeyOf(op, op.fShapes[i + 1])
          IN  \A h \in fShapeCache :
                 (heap[h].fKey = key /\ ~HasID(fAtlas, heap[h].fID)) =>
                    /\ NewEvents[1] = Event("stale", i, h)
                    /\ \A n \in 1 .. Len(NewEvents) : NewEvents[n].ev # "hit"
                    /\ fShapeCache' = fShapeCache \ {h}
                    /\ ListSet(fShapeList') = ListSet(fShapeList) \ {h}
                    /\ heap'[h].state = "deleted"
                    /\ Matches(fShapeCache', heap', key) = {}
                    /\ target' = target
                    /\ flushInfo' = flushInfo
                    /\ \/ pc' = "addToAtlas" /\ i' = i
                       \/ pc' = "loop" /\ i' = i + 1
                          /\ NewEvents[Len(NewEvents)] = Event("skip", i, "raster")
    /\ \A n \in 1 .. Len(trace) :
          trace[n].ev = "stale" =>
             /\ \A m \in 1 .. n - 1 : ~(trace[m].ev = "alloc" /\ trace[m].i = trace[n].i)
             /\ trace[1].ev # "abort"
    /\ \A n \in 1 .. Len(NewEvents) :
          NewEvents[n].ev = "register" =>
             Matches(fShapeCache', heap', KeyOf(op, op.fShapes[i + 1])) = {NewEvents[n].arg}

C8_StaleEntry == [][C8_Step]_vars

\* A stale record was found and removed, and a fresh record was registered for
\* the same instance.
C8_Witness ==
    \E n \in 1 .. Len(trace) :
       /\ trace[n].ev = "stale"
       /\ \E m \in n + 1 .. Len(trace) :
             /\ trace[m].ev = "register"
             /\ trace[m].i = trace[n].i
             /\ trace[m].arg \in fShapeCache
             /\ trace[m].arg # trace[n].arg

(***************************************************************************)
(* C9  Hard miss is local.  The step in which the second allocation fails  *)
(* writes no vertex, leaves the vertex offset and the pending count alone, *)
(* leaves the cache and the list as they were with no record for the       *)
(* instance's key, deletes the record that was being filled and moves on   *)
(* to the next instance; and when the preparation is over every instance   *)
(* was looked up and the last thing done was the final flush.              *)
(***************************************************************************)
C9_Step ==
    /\ (pc = "retry" /\ pc' # "retry" /\ shapeData' = Null) =>
          LET key == KeyOf(op, op.fShapes[i + 1])
          IN  /\ NewEvents = << Event("alloc", i, FALSE), Event("skip", i, "atlas") >>
              /\ target' = target
              /\ offset' = offset
              /\ flushInfo' = flushInfo
              /\ fShapeCache' = fShapeCache
              /\ fShapeList' = fShapeList
              /\ Matches(fShapeCache', heap', key) = {}
              /\ shapeData \notin fShapeCache' \cup ListSet(fShapeList')
              /\ heap'[shapeData].state = "deleted"
              /\ pc' = "loop"
              /\ i' = i + 1
              /\ op' = op
    /\ InPrepare => offset = kVerticesPerQuad * Cardinality(WrittenSlots)
    /\ (pc = "done" /\ ~Aborted) =>
          /\ \A n \in 0 .. Len(op.fShapes) - 1 :
                \E m \in 1 .. Len(trace) :
                   trace[m].ev \in {"hit", "miss", "stale"} /\ trace[m].i = n
          /\ trace[Len(trace)].ev = "flush"
          /\ trace[Len(trace)].i = Len(op.fShapes)
          /\ WrittenSlots = CoveredSlots

C9_HardMissLocal == [][C9_Step]_vars

\* An instance was skipped after two failed allocations, a later instance of
\* the batch was written, and the final flush submitted it.
C9_Witness ==
    /\ pc = "done"
    /\ \E n \in 1 .. Len(trace) :
          /\ trace[n].ev = "skip" /\ trace[n].arg = "atlas"
          /\ \E m \in n + 1 .. Len(trace) :
                trace[m].ev = "write" /\ trace[m].i > trace[n].i
    /\ trace[Len(trace)].ev = "flush" /\ trace[Len(trace)].arg >= 1

(***************************************************************************)
(* C10  Buffer acquisition failure.  A preparation that did not get both   *)
(* the vertex space and the index buffer is over at once: no draw is       *)
(* recorded, no vertex is written, and the step leaves the shape cache,    *)
(* the list, the records and the atlas as they were.                       *)
(***************************************************************************)
C10_Step ==
    /\ (InPrepare /\ target.buffers \in {"noVertices", "noIndexBuffer"}) =>
          /\ pc = "done"
          /\ target.draws = <<>>
          /\ WrittenSlots = {}
          /\ \A n \in 1 .. Len(trace) : trace[n].ev = "abort"
    /\ (pc \in {"idle", "next"} /\ target'.buffers \in {"noVertices", "noIndexBuffer"}) =>
          /\ fShapeCache' = fShapeCache
          /\ fShapeList' = fShapeList
          /\ heap' = heap
          /\ fAtlas' = fAtlas
          /\ nextDrawToken' = nextDrawToken

C10_BufferFailure == [][C10_Step]_vars

\* A preparation was aborted for want of the index buffer while the cache held
\* a record that an earlier preparation registered.
C10_Witness ==
    /\ pc = "done"
    /\ target.buffers = "noIndexBuffer"
    /\ fShapeCache # {}
    /\ Len(op.fShapes) >= 2

(***************************************************************************)
(* C11  Key uniqueness.  Every record in the shape cache is a live record, *)
(* no two records of the cache have the same key, and every registration   *)
(* of an instance's record comes after the lookup of that instance found   *)
(* nothing or removed a stale record; this also holds when the eviction    *)
(* handler has run inside the allocation before the add.                   *)
(***************************************************************************)
C11_KeyUniqueness ==
    /\ \A h \in fShapeCache : heap[h].state = "live"
    /\ \A h1, h2 \in fShapeCache : heap[h1].fKey = heap[h2].fKey => h1 = h2
    /\ \A n \in 1 .. Len(trace) :
          trace[n].ev = "register" =>
             /\ \E m \in 1 .. n - 1 :
                   trace[m].ev \in {"miss", "stale"} /\ trace[m].i = trace[n].i
             /\ \A m \in 1 .. n - 1 :
                   ~(trace[m].ev = "hit" /\ trace[m].i = trace[n].i)

\* A record was registered right after the eviction handler, run inside the
\* allocation, removed a record and kept another.
C11_Witness ==
    /\ \E n \in 1 .. Len(trace) :
          /\ trace[n].ev = "evict"
          /\ trace[n].arg.notify
          /\ trace[n].arg.removed >= 1
          /\ trace[n].arg.kept >= 1
          /\ \E m \in n + 1 .. Len(trace) :
                trace[m].ev = "register" /\ trace[m].i = trace[n].i
    /\ Cardinality(fShapeCache) >= 2

(***************************************************************************)
(* C12  Dual-index consistency.  In every state between two operations the *)
(* records in the shape cache are exactly the records in the liveness      *)
(* list, and the list holds no record twice.                               *)
(***************************************************************************)
C12_DualIndex ==
    /\ fShapeCache = ListSet(fShapeList)
    /\ Cardinality(ListSet(fShapeList)) = Len(fShapeList)

\* A preparation in which a stale record was removed and the eviction handler
\* removed a record, with records left in both indices.
C12_Witness ==
    /\ \E n \in 1 .. Len(trace) : trace[n].ev = "stale"
    /\ \E n \in 1 .. Len(trace) :
          trace[n].ev = "evict" /\ trace[n].arg.notify /\ trace[n].arg.removed >= 1
    /\ fShapeCache # {}
    /\ fShapeList # <<>>

(***************************************************************************)
(* C13  Destruction paths.  In every step, a registered record that leaves *)
(* the cache or is changed or deleted either belongs to a region whose     *)
(* eviction handler ran in that step, or is the stale record (region not   *)
(* resident) that the lookup of its key found in that step.  A step that   *)
(* records or combines a request, hits the cache, flushes or fails an      *)
(* allocation leaves every registered record in place and untouched.       *)
(***************************************************************************)
C13_Step ==
    /\ \A h \in fShapeCache :
          (h \notin fShapeCache' \/ heap'[h] # heap[h]) =>
             \/ heap[h].fID \in EvictedNow
             \/ /\ h \in StaleNow
                /\ pc = "loop"
                /\ heap[h].fKey = KeyOf(op, op.fShapes[i + 1])
                /\ ~HasID(fAtlas, heap[h].fID)
    /\ (\/ pc \in {"idle", "next", "done"}
        \/ \E n \in 1 .. Len(NewEvents) :
              \/ NewEvents[n].ev \in {"hit", "flush"}
              \/ NewEvents[n] = Event("alloc", i, FALSE)) =>
          /\ fShapeCache' = fShapeCache
          /\ fShapeList' = fShapeList
          /\ \A h \in fShapeCache : heap'[h] = heap[h]

C13_DestructionPaths == [][C13_Step]_vars

\* A combined batch whose preparation hit a record, then failed an allocation
\* and flushed, and the record is still registered.
C13_Witness ==
    /\ pc = "done"
    /\ Len(op.fShapes) >= 2
    /\ \E n \in 1 .. Len(trace) :
          /\ trace[n].ev = "hit"
          /\ trace[n].arg \in fShapeCache
          /\ heap[trace[n].arg].state = "live"
          /\ \E m \in n + 1 .. Len(trace) : trace[m].ev = "alloc" /\ ~trace[m].arg

(***************************************************************************)
(* The view matrix a request came with, recovered from its batch: the      *)
(* batch's stored matrix plus the translation stored with the instance.    *)
(***************************************************************************)
OriginalMatrix(o, e) ==
    [o.fViewMatrix EXCEPT !.fTransX = RAdd(@, e.fTranslate[1]),
                          !.fTransY = RAdd(@, e.fTranslate[2])]
\* A view matrix without the integer part of its translation.
StrippedMatrix(m) ==
    [m EXCEPT !.fTransX = RSub(@, I2R(SkScalarFloorToInt(@))),
              !.fTransY = RSub(@, I2R(SkScalarFloorToInt(@)))]
IntegerTranslation(m) == <<SkScalarFloorToInt(m.fTransX), SkScalarFloorToInt(m.fTransY)>>
\* The batches recorded and the batch being prepared.
AllOps == {opList[k] : k \in 1 .. Len(opList)} \cup (IF op = NoOp THEN {} ELSE {op})

(***************************************************************************)
(* C14  Combine preconditions.  In every batch, after any sequence of      *)
(* combines, every instance came with a paint compatible with the batch's  *)
(* pipeline state, and the mode its own request resolves to (from its      *)
(* shape and its own view matrix) is the mode of the batch, which is the   *)
(* mode the batch's first request resolved to at construction.             *)
(***************************************************************************)
C14_CombinePreconditions ==
    \A o \in AllOps :
       \A n \in 1 .. Len(o.fShapes) :
          LET e == o.fShapes[n]
          IN  /\ IsCompatible(o.fHelper, e.paint)
              /\ UsesDistanceField(e.fShape, OriginalMatrix(o, e)) = o.fUsesDistanceField

\* A field-mode batch of two instances is recorded next to a bitmap-mode batch
\* with the same pipeline state and the same stored view matrix: only the mode
\* keeps them apart.
C14_Witness ==
    \E a, b \in 1 .. Len(opList) :
       /\ opList[a].fUsesDistanceField
       /\ Len(opList[a].fShapes) >= 2
       /\ ~opList[b].fUsesDistanceField
       /\ opList[a].fViewMatrix = opList[b].fViewMatrix
       /\ opList[a].fHelper = opList[b].fHelper

\* The requests a recorded batch may be offered, each with the batch it makes
\* alone, the mode it resolves to, and its view matrix without and with only
\* the integer part of the translation.
CombineRequests ==
    {[paint |-> paint,
      viewMatrix |-> viewMatrix,
      new |-> SmallPathOp(0, "red", shape, viewMatrix, paint),
      df |-> UsesDistanceField(shape, viewMatrix),
      stripped |-> StrippedMatrix(viewMatrix),
      integer |-> IntegerTranslation(viewMatrix)] :
        shape \in CombineShapes, viewMatrix \in CombineMatrices, paint \in Paints}

\* The statement of C15 as the specification words it: a field-mode request
\* with compatible pipeline state is absorbed by a field-mode batch whatever
\* their view matrices.
C15_FieldCombinable ==
    \A r \in CombineRequests :
       \A k \in 1 .. Len(opList) :
          (/\ opList[k].fUsesDistanceField
           /\ r.new.fUsesDistanceField
           /\ IsCompatible(opList[k].fHelper, r.paint))
          => CanCombine(opList[k], r.new)

(***************************************************************************)
(* C15  Transform equality.  A recorded batch absorbs a request exactly    *)
(* when the pipeline states are compatible, the modes are the same, and:   *)
(* in field mode, the request's view matrix equals the view matrix of the  *)
(* batch's first request, translation included; in bitmap mode, the two    *)
(* view matrices are equal once the integer part of the translation is     *)
(* stripped and, if the paint uses local coordinates, the integer parts    *)
(* are equal too.                                                          *)
(***************************************************************************)
C15_TransformEquality ==
    \A r \in CombineRequests :
       \A k \in 1 .. Len(opList) :
          LET this == opList[k]
              thisMatrix == OriginalMatrix(this, this.fShapes[1])
          IN  CanCombine(this, r.new)
              <=> /\ IsCompatible(this.fHelper, r.paint)
                  /\ this.fUsesDistanceField = r.df
                  /\ IF r.df
                     THEN thisMatrix = r.viewMatrix
                     ELSE /\ StrippedMatrix(thisMatrix) = r.stripped
                          /\ UsesLocalCoords(r.paint) =>
                                IntegerTranslation(thisMatrix) = r.integer

\* Two field-mode batches with the same pipeline state that differ only in the
\* translation of their view matrices are recorded side by side, one of them
\* with two instances.
C15_Witness ==
    \E a, b \in 1 .. Len(opList) :
       /\ opList[a].fUsesDistanceField /\ opList[b].fUsesDistanceField
       /\ opList[a].fHelper = opList[b].fHelper
       /\ opList[a].fViewMatrix # opList[b].fViewMatrix
       /\ StrippedMatrix(opList[a].fViewMatrix) = StrippedMatrix(opList[b].fViewMatrix)
       /\ Len(opList[a].fShapes) >= 2

(***************************************************************************)
(* C16  Combine effect.  A step that records a request either appends the  *)
(* request's own single-instance batch and leaves every recorded batch as  *)
(* it was, or makes one recorded batch absorb it: that batch's instances   *)
(* stay as they were, in order, the request's instance (its color, its     *)
(* translation) comes after them, the bounds are joined, mode, view matrix *)
(* and pipeline state stay, and the other batches stay.  Either way the    *)
(* shape cache, the list, the records and the atlas stay as they were.     *)
(***************************************************************************)
C16_Step ==
    (pc = "idle" /\ nRequests' = nRequests + 1 /\ fAtlas # NoAtlas) =>
       /\ \E viewMatrix \in MergeMatrices, color \in Colors :
             LET that == SmallPathOp(nRequests + 1, color, "A", viewMatrix, "plain")
                 n == Len(opList)
             IN  \/ opList' = Append(opList, that)
                 \/ /\ Len(opList') = n
                    /\ \E k \in 1 .. n :
                          /\ CanCombine(opList[k], that)
                          /\ \A j \in (1 .. n) \ {k} : opList'[j] = opList[j]
                          /\ opList'[k].fShapes = opList[k].fShapes \o that.fShapes
                          /\ opList'[k].fBounds = RectJoin(opList[k].fBounds, that.fBounds)
                          /\ opList'[k].fUsesDistanceField = opList[k].fUsesDistanceField
                          /\ opList'[k].fViewMatrix = opList[k].fViewMatrix
                          /\ opList'[k].fHelper = opList[k].fHelper
       /\ fShapeCache' = fShapeCache
       /\ fShapeList' = fShapeList
       /\ heap' = heap
       /\ fAtlas' = fAtlas
       /\ nextDrawToken' = nextDrawToken

C16_CombineEffect == [][C16_Step]_vars

\* With a record in the cache from an earlier preparation, a batch has absorbed
\* a request of another color and another translation, and its bounds grew.
C16_Witness ==
    /\ pc = "idle"
    /\ fShapeCache # {}
    /\ \E k \in 1 .. Len(opList) :
          /\ Len(opList[k].fShapes) = 2
          /\ opList[k].fShapes[1].fColor # opList[k].fShapes[2].fColor
          /\ opList[k].fShapes[1].fTranslate # opList[k].fShapes[2].fTranslate
          /\ opList[k].fBounds
               # MapRect(OriginalMatrix(opList[k], opList[k].fShapes[1]), ShapeBounds("A"))

(***************************************************************************)
(* C17  Batch merge equivalence.  Take the instance a preparation step     *)
(* writes, and the single-instance batch its request would have made alone *)
(* (same shape, color, paint and view matrix).  The instance is the entry  *)
(* of that batch; mode, lookup key and rendition geometry are those of     *)
(* that batch; the record used has that key; and the quad written is what  *)
(* that batch writes from the same record: the record's bounds moved by    *)
(* the instance's own translation, the record's texture rectangle, the     *)
(* instance's own color.  How many draws a preparation records has no part *)
(* in it.                                                                  *)
(***************************************************************************)
C17_Step ==
    \A n \in 1 .. Len(NewEvents) :
       NewEvents[n].ev = "write" =>
          LET e == op.fShapes[i + 1]
              single == SmallPathOp(e.req, e.fColor, e.fShape, OriginalMatrix(op, e), e.paint)
              se == single.fShapes[1]
              rec == heap'[shapeData']
              quad == target'.vertices[NewEvents[n].arg]
          IN  /\ se = e
              /\ single.fUsesDistanceField = op.fUsesDistanceField
              /\ KeyOf(single, se) = KeyOf(op, e)
              /\ GeometryOf(single, se) = GeometryOf(op, e)
              /\ rec.state = "live"
              /\ rec.fKey = KeyOf(single, se)
              /\ quad.positions = MakeRect(RAdd(rec.fBounds.fLeft, se.fTranslate[1]),
                                           RAdd(rec.fBounds.fTop, se.fTranslate[2]),
                                           RAdd(rec.fBounds.fRight, se.fTranslate[1]),
                                           RAdd(rec.fBounds.fBottom, se.fTranslate[2]))
              /\ quad.texCoords = rec.fTextureCoords
              /\ quad.color = se.fColor
              /\ quad.req = se.req

C17_MergeEquivalence == [][C17_Step]_vars

\* A combined batch wrote two instances of different colors and translations
\* from one record, and they went out in one draw.
C17_Witness ==
    /\ pc = "done"
    /\ Len(target.draws) = 1
    /\ \E s, t \in WrittenSlots :
          /\ target.vertices[s].color # target.vertices[t].color
          /\ target.vertices[s].positions # target.vertices[t].positions
          /\ target.vertices[s].texCoords = target.vertices[t].texCoords

(***************************************************************************)
(* Counting over the trace of one preparation.                             *)
(***************************************************************************)
\* The instances written and not yet flushed just before the n-th event.
PendingAt(n) ==
    Cardinality({m \in 1 .. n - 1 :
                    /\ trace[m].ev = "write"
                    /\ \A f \in m .. n - 1 : trace[f].ev # "flush"})
\* The first attempts that failed while an instance was pending.
FailuresWhilePending ==
    {n \in 1 .. Len(trace) :
        /\ trace[n].ev = "alloc" /\ ~trace[n].arg
        /\ \A m \in 1 .. n - 1 : ~(trace[m].ev = "alloc" /\ trace[m].i = trace[n].i)
        /\ PendingAt(n) > 0}
Undisturbed ==
    \A n \in 1 .. Len(trace) :
       /\ ~(trace[n].ev = "alloc" /\ ~trace[n].arg)
       /\ trace[n].ev # "skip"

\* The statement of C18 as the specification words it, for preparations that
\* acquired their buffers: the draws recorded are one more than the first
\* attempts that failed with an instance pending, or none if no instance was
\* ever pending.
C18_OnePlusFailures ==
    (pc = "done" /\ ~Aborted) =>
       Len(target.draws) = IF WrittenSlots = {} THEN 0
                           ELSE 1 + Cardinality(FailuresWhilePending)

(***************************************************************************)
(* C18  Number of draws.  When a preparation that acquired its buffers is  *)
(* over, the draws recorded are as many as the first attempts that failed  *)
(* with an instance pending, plus one if an instance was pending when the  *)
(* loop ended; and if no allocation failed, no instance was skipped and    *)
(* the N instances fit in one draw call, there is exactly one draw, of all *)
(* N instances, sent as one draw call.                                     *)
(***************************************************************************)
C18_DrawCount ==
    (pc = "done" /\ ~Aborted) =>
       /\ Len(target.draws)
            = Cardinality(FailuresWhilePending)
              + (IF PendingAt(Len(trace)) > 0 THEN 1 ELSE 0)
       /\ (Undisturbed
           /\ Len(op.fShapes) <= (IndexBufferBytes \div SizeofUint16) \div kIndicesPerQuad) =>
             /\ Len(target.draws) = 1
             /\ target.draws[1].instanceCount = Len(op.fShapes)
             /\ target.draws[1].vertexOffset = target.firstVertex
             /\ Len(PatternedDraws(target.draws[1])) = 1

\* An undisturbed batch of two combined requests went out in one draw.
C18_Witness ==
    /\ pc = "done"
    /\ ~Aborted
    /\ Undisturbed
    /\ Len(op.fShapes) = 2
    /\ Len(target.draws) = 1
    /\ target.draws[1].instanceCount = 2

(***************************************************************************)
(* C19  Resolution monotonicity and cap.  For one shape and two maximum    *)
(* scale factors s1 < s2, both above 1, the integer dimension chosen for   *)
(* s2 is at least the one chosen for s1; and every dimension chosen is at  *)
(* most kMaxMIP (162), as is desiredDimension.                             *)
(***************************************************************************)
C19_ResolutionMonotoneCapped ==
    mip.phase = "computed" =>
       /\ (/\ RLt(I2R(1), mip.maxScale[1])
           /\ RLt(mip.maxScale[1], mip.maxScale[2])) =>
             mip.results[1].dimension <= mip.results[2].dimension
       /\ \A n \in {1, 2} :
             /\ mip.results[n].dimension <= 162
             /\ RLe(mip.results[n].desiredDimension, I2R(162))

\* Two scale factors above 1 gave different dimensions for a small shape, the
\* first of them through the doubling loop.
C19_Witness ==
    /\ mip.phase = "computed"
    /\ RLt(I2R(1), mip.maxScale[1])
    /\ RLt(mip.maxScale[1], mip.maxScale[2])
    /\ RLt(mip.results[1].mipSize0, I2R(12))
    /\ mip.results[1].dimension < mip.results[2].dimension

(***************************************************************************)
(* C20  Magnification bound.  A mipSize that starts positive and below     *)
(* kIdealMinMIP (12) ends strictly above where it started and at most at 4 *)
(* times that; a mipSize that starts at 12 or above is left as it is.      *)
(***************************************************************************)
C20_MagnificationBound ==
    mip.phase = "computed" =>
       \A n \in {1, 2} :
          LET r == mip.results[n]
          IN  /\ RLt(I2R(0), r.mipSize0)
              /\ IF RLt(r.mipSize0, I2R(12))
                 THEN /\ RLt(r.mipSize0, r.mipSize)
                      /\ RLe(r.mipSize, RMul(I2R(4), r.mipSize0))
                 ELSE r.mipSize = r.mipSize0

\* One mipSize was doubled five times and quartered back, the other was left.
C20_Witness ==
    /\ mip.phase = "computed"
    /\ mip.results[1].mipSize0 = Rat(1, 2)
    /\ mip.results[1].mipSize = I2R(1)
    /\ RLe(I2R(12), mip.results[2].mipSize0)
    /\ mip.results[2].mipSize = mip.results[2].mipSize0

(***************************************************************************)
(* C21  mipScale selection.  For every positive maximum scale factor the   *)
(* mipScale chosen is a power of two (2^k or 2^-k), is at least the scale  *)
(* factor, is 1 for a scale factor in (1/2, 1], and otherwise is the       *)
(* smallest power of two at least the scale factor: half of it is below    *)
(* the scale factor.                                                       *)
(***************************************************************************)
IsPowerOfTwo(x) ==
    \E k \in 0 .. MaxScaleHalves : x = I2R(Pow2(k)) \/ x = Rat(1, Pow2(k))

C21_MipScaleSelection ==
    mip.phase = "computed" =>
       \A n \in {1, 2} :
          LET maxScale == mip.maxScale[n]
              mipScale == mip.results[n].mipScale
          IN  /\ RLt(I2R(0), maxScale)
              /\ IsPowerOfTwo(mipScale)
              /\ RLe(maxScale, mipScale)
              /\ IF RLt(Rat(1, 2), maxScale) /\ RLe(maxScale, I2R(1))
                 THEN mipScale = I2R(1)
                 ELSE RLt(RMul(mipScale, Rat(1, 2)), maxScale)

\* One scale factor below 1/2 and not a power of two was rounded up to 1/4,
\* the other, above 1 and not a power of two, was rounded up to 4.
C21_Witness ==
    /\ mip.phase = "computed"
    /\ mip.maxScale[1] = Rat(1, 5)
    /\ mip.results[1].mipScale = Rat(1, 4)
    /\ mip.maxScale[2] = Rat(5, 2)
    /\ mip.results[2].mipScale = I2R(4)

(***************************************************************************)
(* C22  Eligibility gate.  A call of the predicate leaves the atlas, the   *)
(* cache, the list, the records and the batches as they were, and it       *)
(* accepts only a request whose shape has a stable key, whose style is a   *)
(* simple fill, not inverse, with coverage antialiasing and a transform    *)
(* without perspective, whose largest untransformed dimension is at most   *)
(* 73, whose smallest dimension times the minimum scale factor is at least *)
(* 1/2 and whose largest dimension times the maximum scale factor is at    *)
(* most 324; a request violating any one of these is rejected.             *)
(***************************************************************************)
C22_Step ==
    gate' # gate =>
       /\ UNCHANGED <<fAtlas, nextDrawToken, heap, fShapeCache, fShapeList, opList, op>>
       /\ LET args == gate'.args
              w == RectWidth(args.styledBounds)
              h == RectHeight(args.styledBounds)
          IN  gate'.result =>
                 /\ args.hasUnstyledKey
                 /\ args.isSimpleFill
                 /\ ~args.inverseFilled
                 /\ args.fAAType = "kCoverage"
                 /\ ~args.hasPerspective
                 /\ RLe(RMax(w, h), I2R(73))
                 /\ RLe(Rat(1, 2), RMul(RMin(w, h), args.scaleFactors[1]))
                 /\ RLe(RMul(RMax(w, h), args.scaleFactors[2]), I2R(324))
C22_EligibilityGate == [][C22_Step]_vars

\* With a batch recorded, a request at the limits was accepted: largest
\* dimension 73, smallest size exactly 1/2.
C22_Witness ==
    /\ gate.phase = "computed"
    /\ gate.result
    /\ RectWidth(gate.args.styledBounds) = I2R(73)
    /\ gate.args.scaleFactors = <<Rat(1, 2), I2R(4)>>
    /\ Len(opList) >= 1

(***************************************************************************)
(* C23  Callback registration.  No callback is registered at construction  *)
(* or before the first draw request.  The callback is registered by a draw *)
(* request, the first one for which the atlas can be made; a request for   *)
(* which it cannot be made registers nothing and records nothing.  Once    *)
(* registered, the callback stays the only one whatever follows.           *)
(***************************************************************************)
C23_Step ==
    /\ nRequests = 0 => fAtlas.callbacks = 0
    /\ fAtlas.callbacks <= 1 /\ fAtlas'.callbacks <= 1
    /\ fAtlas.callbacks = 1 => fAtlas'.callbacks = 1
    /\ (fAtlas.callbacks = 0 /\ fAtlas'.callbacks = 1) =>
          /\ nRequests' = nRequests + 1
          /\ Len(opList') = Len(opList) + 1
    /\ (fAtlas'.callbacks = 0 /\ nRequests' = nRequests + 1) => opList' = opList
C23_CallbackRegistration == [][C23_Step]_vars

\* The statement of C23 as the specification words it: the callback is
\* registered before any draw request.
C23_RegisteredAtConstruction == nRequests = 0 => fAtlas.callbacks = 1

\* Two requests were made and one batch of one instance is recorded: the
\* first request could not make the atlas, the second registered the callback.
C23_Witness ==
    /\ nRequests = 2
    /\ fAtlas.callbacks = 1
    /\ trace = <<>>
    /\ pc = "idle"
    /\ Len(opList) = 1
    /\ Len(opList[1].fShapes) = 1

\* The scans the eviction handler has made during the preparation so far:
\* the list each started with and what it did, in order.
Scans ==
    {[list |-> trace[n].arg.list, steps |-> trace[n].arg.steps] :
        n \in {m \in 1 .. Len(trace) : trace[m].ev = "evict" /\ trace[m].arg.notify}}
\* The records a scan took out of the list.
RemovedBy(steps) == {steps[n].h : n \in {m \in 1 .. Len(steps) : steps[m].ev = "listRemove"}}
\* Where in a scan a step on a record is (0: nowhere).
StepIndex(steps, ev, h) ==
    IF \E n \in 1 .. Len(steps) : steps[n] = Step(ev, h)
    THEN CHOOSE n \in 1 .. Len(steps) : steps[n] = Step(ev, h)
    ELSE 0

(***************************************************************************)
(* C24  Eviction scan step order.  In every scan of the eviction handler,  *)
(* for every record the scan removes, the iterator is advanced past the    *)
(* record (reading its link) before the record is taken out of the cache   *)
(* and of the list and destroyed, in this order.                           *)
(***************************************************************************)
C24_ScanStepOrder ==
    \A scan \in Scans :
       \A h \in RemovedBy(scan.steps) :
          /\ 0 < StepIndex(scan.steps, "next", h)
          /\ StepIndex(scan.steps, "next", h) < StepIndex(scan.steps, "cacheRemove", h)
          /\ StepIndex(scan.steps, "cacheRemove", h) < StepIndex(scan.steps, "listRemove", h)
          /\ StepIndex(scan.steps, "listRemove", h) < StepIndex(scan.steps, "delete", h)

\* The statement of C24 as the specification words it: the record is
\* detached before the iterator is advanced.
C24_DetachBeforeAdvance ==
    \A scan \in Scans :
       \A h \in RemovedBy(scan.steps) :
          StepIndex(scan.steps, "listRemove", h) < StepIndex(scan.steps, "next", h)

\* A scan removed a record that was not the last of the list and went on to
\* the record after it.
C24_Witness ==
    \E scan \in Scans :
       \E h \in RemovedBy(scan.steps) :
          \E g \in ListSet(scan.list) :
             StepIndex(scan.steps, "delete", h) < StepIndex(scan.steps, "get", g)

(***************************************************************************)
(* C25  Eviction scan safety.  Every scan of the eviction handler hands    *)
(* out each record that was in the list when it started exactly once, in   *)
(* list order, and nothing else; it reads no link and no field of a record *)
(* after it destroyed the record; it ends after at most seven steps per    *)
(* record; and the record the producer is filling while the allocation     *)
(* call runs the handler, registered only afterwards, is not in the list   *)
(* scanned and no step of the scan is on it.                               *)
(***************************************************************************)
Gets(steps) == SelectSeq(steps, LAMBDA x : x.ev = "get")

C25_ScanSafety ==
    \A n \in 1 .. Len(trace) :
       (trace[n].ev = "evict" /\ trace[n].arg.notify) =>
          LET list == trace[n].arg.list
              steps == trace[n].arg.steps
          IN  /\ [k \in 1 .. Len(Gets(steps)) |-> Gets(steps)[k].h] = list
              /\ \A a, b \in 1 .. Len(list) : list[a] = list[b] => a = b
              /\ \A k \in 1 .. Len(steps) :
                    /\ steps[k].h \in ListSet(list)
                    /\ steps[k].ev \in {"next", "readID", "readKey"} =>
                          \A m \in 1 .. k - 1 : steps[m] # Step("delete", steps[k].h)
              /\ Len(steps) <= 7 * Len(list)
              /\ (n + 2 <= Len(trace) /\ trace[n + 2].ev = "register") =>
                    /\ trace[n + 2].arg \notin ListSet(list)
                    /\ \A k \in 1 .. Len(steps) : steps[k].h # trace[n + 2].arg

\* A scan of a list of two or more records removed some and kept some, and
\* the record the producer was filling was registered after it.
C25_Witness ==
    \E n \in 1 .. Len(trace) :
       /\ trace[n].ev = "evict" /\ trace[n].arg.notify
       /\ Len(trace[n].arg.list) >= 2
       /\ RemovedBy(trace[n].arg.steps) # {}
       /\ RemovedBy(trace[n].arg.steps) # ListSet(trace[n].arg.list)
       /\ n + 2 <= Len(trace)
       /\ trace[n + 2].ev = "register"

(***************************************************************************)
(* C26  Freshness touch.  Whenever the vertices of an instance are         *)
(* written, on a cache hit as well as after the producer registered a new  *)
(* record, the region of the record used is touched right before, with the *)
(* token of the next draw, and the atlas holds that token for the region   *)
(* after the step; no allocation for a later instance comes before the     *)
(* touch; and a skipped instance touches no region.                        *)
(***************************************************************************)
C26_Order(T) ==
    \A n \in 1 .. Len(T) :
       /\ T[n].ev = "write" =>
             /\ n >= 3
             /\ T[n - 1].ev = "touch" /\ T[n - 1].i = T[n].i
             /\ T[n - 2].ev \in {"hit", "register"} /\ T[n - 2].i = T[n].i
       /\ T[n].ev = "touch" =>
             /\ n + 1 <= Len(T) /\ T[n + 1].ev = "write" /\ T[n + 1].i = T[n].i
             /\ \A m \in 1 .. n - 1 : T[m].ev = "alloc" => T[m].i <= T[n].i
       /\ T[n].ev = "skip" =>
             \A m \in 1 .. Len(T) : T[m].ev = "touch" => T[m].i # T[n].i

C26_Step ==
    /\ C26_Order(trace')
    /\ \A n \in 1 .. Len(NewEvents) :
          NewEvents[n].ev = "touch" =>
             LET id == NewEvents[n].arg.id
             IN  /\ id = heap'[shapeData'].fID
                 /\ NewEvents[n].arg.token = nextDrawToken'
                 /\ fAtlas'.plots[id.plot].lastUse = nextDrawToken'
                 /\ HasID(fAtlas', id)
C26_FreshnessTouch == [][C26_Step]_vars

\* In one preparation an instance was written on a cache hit and another
\* after its record was registered, both touched, and a third was skipped.
C26_Witness ==
    \E a, b, c \in 1 .. Len(trace) :
       /\ trace[a].ev = "hit" /\ trace[a + 2].ev = "write"
       /\ trace[b].ev = "register" /\ trace[b + 2].ev = "write"
       /\ trace[c].ev = "skip"

(***************************************************************************)
(* C27  Integer-translation independence of bitmap renditions.  In every   *)
(* bitmap-mode batch the view matrix holds a translation in [0, 1), every  *)
(* instance holds an integer translation, and the two add up to the        *)
(* translation of a request made.  The key a bitmap-mode instance is       *)
(* looked up with is the key of its shape and its request's matrix without *)
(* the integer part of the translation, so when a valid record with the    *)
(* key of a request that differs only by an integer translation is in the  *)
(* cache, the lookup is a hit on that record.  Two quads written from one  *)
(* record in a bitmap-mode batch differ exactly by the difference of the   *)
(* instances' integer translations.                                        *)
(***************************************************************************)
InUnit(x) == RLe(I2R(0), x) /\ RLt(x, I2R(1))

C27_Step ==
    /\ \A k \in 1 .. Len(opList') :
          LET o == opList'[k]
          IN  ~o.fUsesDistanceField =>
                 /\ InUnit(o.fViewMatrix.fTransX) /\ InUnit(o.fViewMatrix.fTransY)
                 /\ \A n \in 1 .. Len(o.fShapes) :
                       LET e == o.fShapes[n]
                       IN  /\ e.fTranslate =
                                 <<I2R(SkScalarFloorToInt(OriginalMatrix(o, e).fTransX)),
                                   I2R(SkScalarFloorToInt(OriginalMatrix(o, e).fTransY))>>
                           /\ OriginalMatrix(o, e) \in MergeMatrices
    /\ \A n \in 1 .. Len(NewEvents) :
          (NewEvents[n].ev \in {"hit", "miss", "stale"} /\ ~op.fUsesDistanceField) =>
             LET e == op.fShapes[i + 1]
                 key == KeyOf(op, e)
             IN  /\ key = KeyBM(e.fShape, StrippedMatrix(OriginalMatrix(op, e)))
                 /\ \A m \in MergeMatrices, h \in fShapeCache :
                       (/\ StrippedMatrix(m) = StrippedMatrix(OriginalMatrix(op, e))
                        /\ heap[h].fKey = KeyBM(e.fShape, StrippedMatrix(m))
                        /\ HasID(fAtlas, heap[h].fID))
                       => NewEvents[n] = Event("hit", i, h)
    /\ (op' # NoOp /\ ~op'.fUsesDistanceField) =>
          \A a, b \in {n \in 1 .. Len(trace') : trace'[n].ev = "write"} :
             trace'[a - 2].arg = trace'[b - 2].arg =>
                LET ta == op'.fShapes[trace'[a].i + 1].fTranslate
                    tb == op'.fShapes[trace'[b].i + 1].fTranslate
                IN  target'.vertices[trace'[b].arg].positions =
                       RectOffset(target'.vertices[trace'[a].arg].positions,
                                  RSub(tb[1], ta[1]), RSub(tb[2], ta[2]))
C27_IntegerTranslation == [][C27_Step]_vars

\* A bitmap-mode batch holds two requests that differ by an integer
\* translation; the first registered a record, the second hit it, and both
\* quads are written.
C27_Witness ==
    /\ op # NoOp
    /\ ~op.fUsesDistanceField
    /\ \E a, b \in 1 .. Len(trace) :
          /\ trace[a].ev = "register" /\ trace[a + 2].ev = "write"
          /\ trace[b] = Event("hit", trace[b].i, trace[a].arg) /\ trace[b + 2].ev = "write"
          /\ op.fShapes[trace[a].i + 1].fTranslate # op.fShapes[trace[b].i + 1].fTranslate
          /\ target.vertices[trace[a + 2].arg].positions
                # target.vertices[trace[b + 2].arg].positions

(***************************************************************************)
(* C28  Vertex packing.  Throughout a preparation that got its buffers,    *)
(* the slots written are the first ones, without a gap, as many as there   *)
(* are instances submitted plus instances pending; the write offset is 4   *)
(* times that number; the flush info's vertex offset is the initial offset *)
(* plus 4 times the instances submitted; the n-th draw starts where the    *)
(* draws before it end and covers as many slots as it has instances, all   *)
(* of them written; and no slot written or drawn lies beyond the 4 x       *)
(* instanceCount vertices allocated up front.                              *)
(***************************************************************************)
\* The instances the draws before the n-th one submitted.
SubmittedBefore(n) ==
    LET RECURSIVE Sum(_)
        Sum(k) == IF k = 0 THEN 0 ELSE target.draws[k].instanceCount + Sum(k - 1)
    IN  Sum(n - 1)

C28_VertexPacking ==
    (InPrepare /\ ~Aborted) =>
       LET written == Cardinality(WrittenSlots)
           instanceCount == Len(op.fShapes)
       IN  /\ WrittenSlots = 0 .. written - 1
           /\ written = SubmittedInstances + flushInfo.fInstancesToFlush
           /\ offset = 4 * written
           /\ flushInfo.fVertexOffset = target.firstVertex + 4 * SubmittedInstances
           /\ \A n \in 1 .. Len(target.draws) :
                 /\ target.draws[n].vertexOffset
                       = target.firstVertex + 4 * SubmittedBefore(n)
                 /\ DrawSlots(n) = SubmittedBefore(n)
                                      .. SubmittedBefore(n) + target.draws[n].instanceCount - 1
                 /\ DrawSlots(n) \subseteq WrittenSlots
           /\ written <= instanceCount
           /\ offset <= 4 * instanceCount
           /\ CoveredSlots \subseteq 0 .. instanceCount - 1

\* A batch of three instances ended with the first and the third written in
\* slots 0 and 1, the second skipped, and one draw for each written one.
C28_Witness ==
    /\ pc = "done"
    /\ ~Aborted
    /\ Len(op.fShapes) = 3
    /\ WrittenSlots = {0, 1}
    /\ Len(target.draws) = 2
    /\ \E n \in 1 .. Len(trace) : trace[n].ev = "skip" /\ trace[n].i = 1

(***************************************************************************)
(* C29  Resolution selection terminates.  For every instance of a          *)
(* distance-field batch, also of one made without onCanDrawPath before it, *)
(* the doubling loop and the quartering loop end, and the dimension of the *)
(* key they lead to is at least 1.                                         *)
(***************************************************************************)
C29_SelectionTerminates ==
    /\ <>(mip.phase \in {"done", "bitmap"})
    /\ [](mip.phase = "done" => mip.dimension >= 1)

(***************************************************************************)
(* C30  Named curves are valid.  For sRGB, the 2.2 curve and linear,       *)
(* named_to_parametric returns true and is_valid_transfer_fn accepts the   *)
(* coefficients it wrote; for any other named gamma it returns false.      *)
(***************************************************************************)
C30_NamedCurvesValid ==
    gamma.phase = "checked" =>
       IF gamma.gammaNamed \in {"kSRGB_SkGammaNamed", "k2Dot2Curve_SkGammaNamed",
                                "kLinear_SkGammaNamed"}
       THEN gamma.result /\ gamma.valid
       ELSE ~gamma.result

=============================================================================
